---- MODULE Spec2Model ----
(***************************************************************************)
(* Model of the okp4-cognitarium storage engine (storer/engine.rs) and of  *)
(* the IRI splitting function (rdf.rs).                                    *)
(*                                                                         *)
(* Strings are sequences of one-character strings, so that they can be     *)
(* indexed and sliced as the Rust code does.  A document handed to         *)
(* store_all is the sequence of items its parser yields: triples, possibly *)
(* ended by a parse error.                                                 *)
(*                                                                         *)
(* store_all and delete_all return an error before they reach finish, and  *)
(* leave the counters and the namespace cache of the engine as the failed  *)
(* batch made them.  In Spec the caller drops an engine whose call failed  *)
(* and makes a new one over the storage; in SpecReuse the caller may also  *)
(* call the same engine again after an error that was returned.            *)
(***************************************************************************)
EXTENDS Integers, Sequences, FiniteSets, TLC

VARIABLES
    STORE,                      \* persisted Store item: [stat, limits]
    NAMESPACE_KEY_INCREMENT,    \* persisted namespace-key allocator offset
    namespaces,                 \* persisted namespace table: ns text -> Namespace
    triples,                    \* persisted triple table: key -> Triple
    store,                      \* StoreEngine.store (in-memory copy of STORE)
    ns_key_inc_offset,          \* StoreEngine.ns_key_inc_offset
    ns_cache,                   \* StoreEngine.ns_cache: ns text -> Namespace
    initial_triple_count,       \* StoreEngine.initial_triple_count
    initial_byte_size,          \* StoreEngine.initial_byte_size
    alive,                      \* FALSE once a call on this engine failed
    calls,                      \* store_all and delete_all calls made so far
    overflow_checks,            \* build profile: does u128 arithmetic panic on overflow
    call,                       \* the last call: [op, batch, result, log, nth]
    refs,                       \* references added minus released by the committed batches
    before,                     \* the storage before the last committed store_all
    iri,                        \* input of explode_iri (SpecExplode)
    exploded,                   \* output of explode_iri (SpecExplode)
    msg_value,                  \* the msg::Value handed to try_from (SpecMapper)
    prefixes,                   \* the prefix map handed to try_from (SpecMapper)
    mapped                      \* what try_from returned for Subject, Property, Value

vars == <<STORE, NAMESPACE_KEY_INCREMENT, namespaces, triples, store,
          ns_key_inc_offset, ns_cache, initial_triple_count, initial_byte_size,
          alive, calls, overflow_checks, call, refs, before, iri, exploded,
          msg_value, prefixes, mapped>>

storageVars == <<STORE, NAMESPACE_KEY_INCREMENT, namespaces, triples>>
engineVars == <<store, ns_key_inc_offset, ns_cache, initial_triple_count,
                initial_byte_size, alive, calls, overflow_checks, call>>
mapperVars == <<msg_value, prefixes, mapped>>

----------------------------------------------------------------------------
(* Bounds of the model *)

\* longest IRI explode_iri is applied to in SpecExplode
MaxIriLen == 3
\* longest document / atom list of one call
MaxBatch == 2
\* store_all and delete_all calls of one run
MaxCalls == 2
\* stand-in for 2^128, the modulus of wrapping u128 arithmetic
CounterModulus == 64

----------------------------------------------------------------------------
(* Strings *)

Max(a, b) == IF a >= b THEN a ELSE b

\* the characters IRIs are built from; the last one takes two bytes in UTF-8
Alphabet == {"#", "/", ":", "a", "e"}
Delimiters == <<"#", "/", ":">>

\* the UTF-8 encoding of a character; "e" stands for U+00E9, which takes two bytes
Utf8(c) ==
    CASE c = "#" -> <<35>> [] c = "/" -> <<47>> [] c = ":" -> <<58>>
      [] c = "a" -> <<97>> [] c = "b" -> <<98>> [] c = "n" -> <<110>>
      [] c = "o" -> <<111>> [] c = "s" -> <<115>> [] c = "v" -> <<118>>
      [] c = "x" -> <<120>> [] c = "y" -> <<121>> [] c = "e" -> <<195, 169>>

CharLen(c) == Len(Utf8(c))

RECURSIVE Bytes(_)
\* str::as_bytes
Bytes(s) == IF s = <<>> THEN <<>> ELSE Utf8(Head(s)) \o Bytes(Tail(s))

RECURSIVE BytesLess(_, _)
\* the order of String keys in a BTreeMap: byte-wise lexicographic
BytesLess(a, b) ==
    IF b = <<>> THEN FALSE
    ELSE IF a = <<>> THEN TRUE
    ELSE IF Head(a) # Head(b) THEN Head(a) < Head(b)
    ELSE BytesLess(Tail(a), Tail(b))

RECURSIVE SortedKeys(_)
\* the keys of a BTreeMap<String, _> in iteration order
SortedKeys(S) ==
    IF S = {} THEN <<>>
    ELSE LET least == CHOOSE k \in S : \A x \in S \ {k} : BytesLess(Bytes(k), Bytes(x))
         IN  <<least>> \o SortedKeys(S \ {least})

RECURSIVE str_len(_)
\* str::len: the length of a string in bytes
str_len(s) == IF s = <<>> THEN 0 ELSE CharLen(Head(s)) + str_len(Tail(s))

\* str::rfind: the last position of delim in s (1-based), 0 when there is none
rfind(s, delim) ==
    LET at == {i \in 1..Len(s) : s[i] = delim}
    IN  IF at = {} THEN 0 ELSE CHOOSE i \in at : \A j \in at : j <= i

RECURSIVE marker_from(_, _, _)
\* the loop of explode_iri over ['#', '/', ':'] from the d-th delimiter on
marker_from(s, d, marker_index) ==
    IF d > Len(Delimiters) THEN marker_index
    ELSE LET index == rfind(s, Delimiters[d])
         IN  marker_from(s, d + 1,
                 IF index # 0
                 THEN (IF marker_index # 0 THEN Max(marker_index, index) ELSE index)
                 ELSE marker_index)

\* a mutant of explode_iri: splits at the last occurrence of the last delimiter found
explode_iri_last_delim(s) ==
    LET found == {d \in 1..Len(Delimiters) : rfind(s, Delimiters[d]) # 0}
        index == IF found = {} THEN 0
                 ELSE rfind(s, Delimiters[CHOOSE d \in found : \A x \in found : x <= d])
    IN  IF index # 0
        THEN [ok |-> TRUE, ns |-> SubSeq(s, 1, index), local |-> SubSeq(s, index + 1, Len(s))]
        ELSE [ok |-> FALSE, ns |-> <<>>, local |-> <<>>]

\* a mutant of explode_iri: an IRI without delimiter gets the empty namespace
explode_iri_no_error(s) ==
    LET index == marker_from(s, 1, 0)
    IN  [ok |-> TRUE, ns |-> SubSeq(s, 1, index), local |-> SubSeq(s, index + 1, Len(s))]

\* rdf::explode_iri
explode_iri(s) ==
    LET index == marker_from(s, 1, 0)
    IN  IF index # 0
        THEN [ok |-> TRUE, ns |-> SubSeq(s, 1, index), local |-> SubSeq(s, index + 1, Len(s))]
        ELSE [ok |-> FALSE, ns |-> <<>>, local |-> <<>>]

RECURSIVE StringsUpTo(_)
StringsUpTo(n) ==
    IF n = 0 THEN {<<>>}
    ELSE LET shorter == StringsUpTo(n - 1)
         IN  shorter \cup {Append(s, c) : s \in {x \in shorter : Len(x) = n - 1}, c \in Alphabet}

----------------------------------------------------------------------------
(* Terms and triples as the parser yields them (rio_api::model) *)

NamedNode(i) == [kind |-> "NamedNode", iri |-> i]
BlankNode(i) == [kind |-> "BlankNode", id |-> i]
QuotedTriple == [kind |-> "Triple"]
Simple(v) == [kind |-> "Literal", literal |-> [kind |-> "Simple", value |-> v]]
LanguageTaggedString(v, l) ==
    [kind |-> "Literal",
     literal |-> [kind |-> "LanguageTaggedString", value |-> v, language |-> l]]
Typed(v, d) ==
    [kind |-> "Literal", literal |-> [kind |-> "Typed", value |-> v, datatype |-> d]]
ModelTriple(s, p, o) == [subject |-> s, predicate |-> p, object |-> o]

\* the item a reader yields where the document is malformed
ParseError == [parse_error |-> TRUE]
IsParseError(item) == "parse_error" \in DOMAIN item

----------------------------------------------------------------------------
(* Results and errors *)

NoErr == [kind |-> "none", args |-> <<>>]
Err(kind, args) == [kind |-> kind, args |-> args]
Ok(v) == [ok |-> TRUE, value |-> v, err |-> NoErr]
Failed(e) == [ok |-> FALSE, value |-> 0, err |-> e]

\* the errors that are a panic: the call does not return
IsPanic(e) == e.kind \in {"attempt to add with overflow", "attempt to subtract with overflow"}

----------------------------------------------------------------------------
(* state.rs: the stored form of a triple and its key *)

Namespace(value, key, counter) == [value |-> value, key |-> key, counter |-> counter]
Node(namespace, value) == [namespace |-> namespace, value |-> value]

\* Object::as_hash: the digest of the object, taken to be free of collisions
as_hash(object) == [blake3 |-> object]
\* Node::key
node_key(node) == [namespace |-> node.namespace, value |-> node.value]
\* Subject::key
subject_key(subject) ==
    IF subject.kind = "Named" THEN [kind |-> "n", key |-> node_key(subject.node)]
    ELSE [kind |-> "b", key |-> [namespace |-> 0, value |-> subject.id]]

\* the key of the triples() map
triple_key(triple) ==
    [object |-> as_hash(triple.object), predicate |-> node_key(triple.predicate),
     subject |-> subject_key(triple.subject)]

\* Map::save and Map::remove on a table held as a function
MapSave(table, k, v) == [x \in DOMAIN table \cup {k} |-> IF x = k THEN v ELSE table[x]]
MapRemove(table, k) == [x \in DOMAIN table \ {k} |-> table[x]]
EmptyMap == [x \in {} |-> 0]

----------------------------------------------------------------------------
(* Integer arithmetic *)

\* a mutant of U128Sub: subtraction saturates at zero
U128SubSaturating(m, a, b) == [ok |-> TRUE, value |-> IF a >= b THEN a - b ELSE 0]

\* u128 `-=` in the build of machine m: panics under overflow checks, wraps otherwise
U128Sub(m, a, b) ==
    IF a >= b THEN [ok |-> TRUE, value |-> a - b]
    ELSE IF m.overflow_checks THEN [ok |-> FALSE, value |-> 0]
    ELSE [ok |-> TRUE, value |-> (a - b) % CounterModulus]

\* u128 `+=` in the build of machine m: panics under overflow checks, wraps otherwise
U128Add(m, a, b) ==
    IF a + b < CounterModulus THEN [ok |-> TRUE, value |-> a + b]
    ELSE IF m.overflow_checks THEN [ok |-> FALSE, value |-> 0]
    ELSE [ok |-> TRUE, value |-> (a + b) % CounterModulus]

\* Uint128 `-=`: cosmwasm_std panics on overflow in every build
Uint128Sub(a, b) ==
    IF a >= b THEN [ok |-> TRUE, value |-> a - b] ELSE [ok |-> FALSE, value |-> 0]

----------------------------------------------------------------------------
(* The engine, as a function of the machine state m:                       *)
(*   m.STORE, m.NAMESPACE_KEY_INCREMENT, m.namespaces, m.triples: storage  *)
(*   m.store, m.ns_key_inc_offset, m.ns_cache, m.initial_triple_count,     *)
(*   m.initial_byte_size: the fields of StoreEngine                        *)
(*   m.overflow_checks: the build profile                                  *)
(*   m.err: the error the running call has raised, m.ret: the value the    *)
(*   last step returned, m.log: the steps and backend writes of the call   *)

Machine ==
    [STORE |-> STORE, NAMESPACE_KEY_INCREMENT |-> NAMESPACE_KEY_INCREMENT,
     namespaces |-> namespaces, triples |-> triples,
     store |-> store, ns_key_inc_offset |-> ns_key_inc_offset, ns_cache |-> ns_cache,
     initial_triple_count |-> initial_triple_count,
     initial_byte_size |-> initial_byte_size, overflow_checks |-> overflow_checks,
     err |-> NoErr, ret |-> 0, log |-> <<>>]

\* StoreEngine::new over the storage of m
new(m) ==
    [m EXCEPT !.store = m.STORE,
              !.ns_key_inc_offset = m.NAMESPACE_KEY_INCREMENT,
              !.ns_cache = EmptyMap,
              !.initial_triple_count = m.STORE.stat.triple_count,
              !.initial_byte_size = m.STORE.stat.byte_size,
              !.err = NoErr, !.ret = 0, !.log = <<>>]

Raise(m, e) == [m EXCEPT !.err = e]
Panic(m, what) == [m EXCEPT !.err = Err(what, <<>>)]
Log(m, event) == [m EXCEPT !.log = Append(@, event)]

\* the `?` operator: the error of a step is returned, its value is passed on
Try(m1, then(_)) == IF m1.err # NoErr THEN m1 ELSE then(m1)
\* the value a step returns
Ret(m, value) == [m EXCEPT !.ret = value]

\* StoreEngine::node_size
node_size(node) == str_len(node.iri)

\* StoreEngine::subject_size
subject_size(subject) ==
    CASE subject.kind = "NamedNode" -> node_size(subject)
      [] subject.kind = "BlankNode" -> str_len(subject.id)
      [] subject.kind = "Triple" -> 0

\* StoreEngine::object_size
object_size(term) ==
    CASE term.kind = "NamedNode" -> node_size(term)
      [] term.kind = "BlankNode" -> str_len(term.id)
      [] term.kind = "Literal" ->
            (CASE term.literal.kind = "Simple" -> str_len(term.literal.value)
               [] term.literal.kind = "LanguageTaggedString" ->
                     str_len(term.literal.value) + str_len(term.literal.language)
               [] term.literal.kind = "Typed" ->
                     str_len(term.literal.value) + node_size(term.literal.datatype))
      [] term.kind = "Triple" -> 0

\* a mutant of triple_size: the datatype of a typed literal is not counted
triple_size_no_datatype(triple) ==
    subject_size(triple.subject) + node_size(triple.predicate)
        + (IF triple.object.kind = "Literal" /\ triple.object.literal.kind = "Typed"
           THEN str_len(triple.object.literal.value)
           ELSE object_size(triple.object))

\* StoreEngine::triple_size
triple_size(triple) ==
    subject_size(triple.subject) + node_size(triple.predicate) + object_size(triple.object)

\* a mutant of allocate_namespace: the allocator offset is not increased
allocate_namespace_same_offset(m, value) ==
    [m EXCEPT !.store.stat.namespace_count = @ + 1,
              !.ret = Namespace(value, m.ns_key_inc_offset, 0)]

\* StoreEngine::allocate_namespace; the new Namespace is left in m.ret
allocate_namespace(m, value) ==
    [m EXCEPT !.store.stat.namespace_count = @ + 1,
              !.ns_key_inc_offset = @ + 1,
              !.ret = Namespace(value, m.ns_key_inc_offset, 0)]

\* `let value = ..;`: the value is computed once and named in what follows
Let(value, in(_)) == in(value)

\* a mutant of cache_counted: the record is also written through to the backend
cache_counted_write_through(m, ns_str, namespace, counter, panic) ==
    IF ~counter.ok THEN Panic(m, panic)
    ELSE [Log(m, <<"namespaces.save", ns_str>>)
             EXCEPT !.ns_cache = MapSave(@, ns_str, [namespace EXCEPT !.counter = counter.value]),
                    !.namespaces = MapSave(@, ns_str, [namespace EXCEPT !.counter = counter.value]),
                    !.ret = namespace.key]

\* the namespace is put in the cache with its new counter, and its key returned;
\* the arithmetic that gave the counter may have panicked
cache_counted(m, ns_str, namespace, counter, panic) ==
    IF ~counter.ok THEN Panic(m, panic)
    ELSE [m EXCEPT !.ns_cache = MapSave(@, ns_str, [namespace EXCEPT !.counter = counter.value]),
                   !.ret = namespace.key]

\* a mutant of resolve_and_reference_ns: a namespace found in the cache is not incremented
resolve_and_reference_ns_cached_as_is(m, ns_str) ==
    IF ns_str \in DOMAIN m.ns_cache
    THEN Ret(m, m.ns_cache[ns_str].key)
    ELSE Let(IF ns_str \in DOMAIN m.namespaces
             THEN Ret(m, m.namespaces[ns_str])
             ELSE allocate_namespace(m, ns_str),
             LAMBDA m1 : cache_counted(m1, ns_str, m1.ret, U128Add(m1, m1.ret.counter, 1),
                                       "attempt to add with overflow"))

\* StoreEngine::resolve_and_reference_ns; the key is left in m.ret
resolve_and_reference_ns(m, ns_str) ==
    IF ns_str \in DOMAIN m.ns_cache
    THEN cache_counted(m, ns_str, m.ns_cache[ns_str],
                       U128Add(m, m.ns_cache[ns_str].counter, 1),
                       "attempt to add with overflow")
    ELSE Let(IF ns_str \in DOMAIN m.namespaces
             THEN Ret(m, m.namespaces[ns_str])
             ELSE allocate_namespace(m, ns_str),
             LAMBDA m1 : cache_counted(m1, ns_str, m1.ret, U128Add(m1, m1.ret.counter, 1),
                                       "attempt to add with overflow"))

\* a mutant of resolve_and_free_ns: a namespace found in the cache is not decremented
resolve_and_free_ns_cached_as_is(m, ns_str) ==
    IF ns_str \in DOMAIN m.ns_cache
    THEN Ret(m, m.ns_cache[ns_str].key)
    ELSE IF ns_str \notin DOMAIN m.namespaces
    THEN Raise(m, Err("NotFound", <<>>))
    ELSE cache_counted(m, ns_str, m.namespaces[ns_str],
                       U128Sub(m, m.namespaces[ns_str].counter, 1),
                       "attempt to subtract with overflow")

\* a mutant of resolve_and_free_ns: the key returned is not that of the namespace
resolve_and_free_ns_other_key(m, ns_str) ==
    IF ns_str \in DOMAIN m.ns_cache
    THEN Try(cache_counted(m, ns_str, m.ns_cache[ns_str],
                           U128Sub(m, m.ns_cache[ns_str].counter, 1),
                           "attempt to subtract with overflow"),
             LAMBDA m1 : Ret(m1, m1.ret + 1))
    ELSE IF ns_str \notin DOMAIN m.namespaces
    THEN Raise(m, Err("NotFound", <<>>))
    ELSE Try(cache_counted(m, ns_str, m.namespaces[ns_str],
                           U128Sub(m, m.namespaces[ns_str].counter, 1),
                           "attempt to subtract with overflow"),
             LAMBDA m1 : Ret(m1, m1.ret + 1))

\* a mutant of resolve_and_free_ns: an unknown namespace is allocated, as on insert
resolve_and_free_ns_allocates(m, ns_str) ==
    IF ns_str \in DOMAIN m.ns_cache
    THEN cache_counted(m, ns_str, m.ns_cache[ns_str],
                       U128Sub(m, m.ns_cache[ns_str].counter, 1),
                       "attempt to subtract with overflow")
    ELSE Let(IF ns_str \in DOMAIN m.namespaces
             THEN Ret(m, m.namespaces[ns_str])
             ELSE allocate_namespace(m, ns_str),
             LAMBDA m1 : cache_counted(m1, ns_str, m1.ret, [ok |-> TRUE, value |-> 0],
                                       "attempt to subtract with overflow"))

\* StoreEngine::resolve_and_free_ns; the key is left in m.ret
resolve_and_free_ns(m, ns_str) ==
    IF ns_str \in DOMAIN m.ns_cache
    THEN cache_counted(m, ns_str, m.ns_cache[ns_str],
                       U128Sub(m, m.ns_cache[ns_str].counter, 1),
                       "attempt to subtract with overflow")
    ELSE IF ns_str \notin DOMAIN m.namespaces
    THEN Raise(m, Err("NotFound", <<>>))
    ELSE cache_counted(m, ns_str, m.namespaces[ns_str],
                       U128Sub(m, m.namespaces[ns_str].counter, 1),
                       "attempt to subtract with overflow")

\* The closure ns_fn that store_triple and delete_triple hand to rio_to_triple,
\* named by the method it calls.
call_ns_fn(ns_fn, m, ns_str) ==
    CASE ns_fn = "resolve_and_reference_ns" -> resolve_and_reference_ns(m, ns_str)
      [] ns_fn = "resolve_and_free_ns" -> resolve_and_free_ns(m, ns_str)

\* StoreEngine::rio_to_node; the Node is left in m.ret
rio_to_node(m, node, ns_fn) ==
    LET parts == explode_iri(node.iri)
    IN  IF ~parts.ok THEN Raise(m, Err("Couldn't extract IRI namespace", <<>>))
        ELSE Try(call_ns_fn(ns_fn, m, parts.ns),
                 LAMBDA m1 : Ret(m1, Node(m1.ret, parts.local)))

\* StoreEngine::rio_to_subject
rio_to_subject(m, subject, ns_fn) ==
    CASE subject.kind = "NamedNode" ->
            Try(rio_to_node(m, subject, ns_fn),
                LAMBDA m1 : Ret(m1, [kind |-> "Named", node |-> m1.ret]))
      [] subject.kind = "BlankNode" -> Ret(m, [kind |-> "Blank", id |-> subject.id])
      [] subject.kind = "Triple" -> Raise(m, Err("RDF star syntax unsupported", <<>>))

\* StoreEngine::rio_to_literal
rio_to_literal(m, literal, ns_fn) ==
    CASE literal.kind = "Simple" -> Ret(m, [kind |-> "Simple", value |-> literal.value])
      [] literal.kind = "LanguageTaggedString" ->
            Ret(m, [kind |-> "I18NString", value |-> literal.value,
                    language |-> literal.language])
      [] literal.kind = "Typed" ->
            Try(rio_to_node(m, literal.datatype, ns_fn),
                LAMBDA m1 : Ret(m1, [kind |-> "Typed", value |-> literal.value,
                                     datatype |-> m1.ret]))

\* a mutant of rio_to_object: a quoted triple is flattened into a blank node
rio_to_object_flattens(m, object, ns_fn) ==
    CASE object.kind = "BlankNode" -> Ret(m, [kind |-> "Blank", id |-> object.id])
      [] object.kind = "NamedNode" ->
            Try(rio_to_node(m, object, ns_fn),
                LAMBDA m1 : Ret(m1, [kind |-> "Named", node |-> m1.ret]))
      [] object.kind = "Literal" ->
            Try(rio_to_literal(m, object.literal, ns_fn),
                LAMBDA m1 : Ret(m1, [kind |-> "Literal", literal |-> m1.ret]))
      [] object.kind = "Triple" -> Ret(m, [kind |-> "Blank", id |-> <<>>])

\* StoreEngine::rio_to_object
rio_to_object(m, object, ns_fn) ==
    CASE object.kind = "BlankNode" -> Ret(m, [kind |-> "Blank", id |-> object.id])
      [] object.kind = "NamedNode" ->
            Try(rio_to_node(m, object, ns_fn),
                LAMBDA m1 : Ret(m1, [kind |-> "Named", node |-> m1.ret]))
      [] object.kind = "Literal" ->
            Try(rio_to_literal(m, object.literal, ns_fn),
                LAMBDA m1 : Ret(m1, [kind |-> "Literal", literal |-> m1.ret]))
      [] object.kind = "Triple" -> Raise(m, Err("RDF star syntax unsupported", <<>>))

\* StoreEngine::rio_to_triple; the Triple is left in m.ret
rio_to_triple(m, triple, ns_fn) ==
    Try(rio_to_subject(m, triple.subject, ns_fn), LAMBDA m1 :
    Try(rio_to_node(m1, triple.predicate, ns_fn), LAMBDA m2 :
    Try(rio_to_object(m2, triple.object, ns_fn), LAMBDA m3 :
        Ret(m3, [subject |-> m1.ret, predicate |-> m2.ret, object |-> m3.ret]))))

----------------------------------------------------------------------------
(* The calls of the engine *)

\* a mutant of check_triple_count: the total is compared with >=
check_triple_count_off_by_one(m) ==
    LET limits == m.store.limits
    IN  IF m.store.stat.triple_count >= limits.max_triple_count
        THEN Err("TripleCount", <<limits.max_triple_count>>)
        ELSE IF m.store.stat.triple_count < m.initial_triple_count
        THEN Err("attempt to subtract with overflow", <<>>)
        ELSE IF m.store.stat.triple_count - m.initial_triple_count
                    > limits.max_insert_data_triple_count
        THEN Err("InsertDataTripleCount", <<limits.max_insert_data_triple_count>>)
        ELSE NoErr

\* a mutant of check_triple_count: the two bounds are checked in the other order
check_triple_count_swapped(m) ==
    LET limits == m.store.limits
    IN  IF m.store.stat.triple_count < m.initial_triple_count
        THEN Err("attempt to subtract with overflow", <<>>)
        ELSE IF m.store.stat.triple_count - m.initial_triple_count
                > limits.max_insert_data_triple_count
        THEN Err("InsertDataTripleCount", <<limits.max_insert_data_triple_count>>)
        ELSE IF m.store.stat.triple_count > limits.max_triple_count
        THEN Err("TripleCount", <<limits.max_triple_count>>)
        ELSE NoErr

\* store_triple, the two bounds on the triple count (after the increment); the
\* Uint128 subtraction panics when the count is below the initial count
check_triple_count(m) ==
    LET limits == m.store.limits
    IN  IF m.store.stat.triple_count > limits.max_triple_count
        THEN Err("TripleCount", <<limits.max_triple_count>>)
        ELSE IF m.store.stat.triple_count < m.initial_triple_count
        THEN Err("attempt to subtract with overflow", <<>>)
        ELSE IF m.store.stat.triple_count - m.initial_triple_count
                    > limits.max_insert_data_triple_count
        THEN Err("InsertDataTripleCount", <<limits.max_insert_data_triple_count>>)
        ELSE NoErr

\* a mutant of check_triple_byte_size: a triple of any size is accepted
check_triple_byte_size_skipped(m, t_size) == NoErr

\* store_triple, the bound on the size of one triple
check_triple_byte_size(m, t_size) ==
    IF t_size > m.store.limits.max_triple_byte_size
    THEN Err("TripleByteSize", <<t_size, m.store.limits.max_triple_byte_size>>)
    ELSE NoErr

\* store_triple, the two bounds on the byte size (after the addition); the
\* Uint128 subtraction panics when the size is below the initial size
check_byte_size(m) ==
    LET limits == m.store.limits
    IN  IF m.store.stat.byte_size > limits.max_byte_size
        THEN Err("ByteSize", <<limits.max_byte_size>>)
        ELSE IF m.store.stat.byte_size < m.initial_byte_size
        THEN Err("attempt to subtract with overflow", <<>>)
        ELSE IF m.store.stat.byte_size - m.initial_byte_size
                    > limits.max_insert_data_byte_size
        THEN Err("InsertDataByteSize", <<limits.max_insert_data_byte_size>>)
        ELSE NoErr

\* StoreEngine::store_triple
store_triple(m, t) ==
    LET m1 == [Log(m, <<"store_triple">>) EXCEPT !.store.stat.triple_count = @ + 1]
        t_size == triple_size(t)
        m2 == [m1 EXCEPT !.store.stat.byte_size = @ + t_size]
    IN  IF check_triple_count(m1) # NoErr THEN Raise(m1, check_triple_count(m1))
        ELSE IF check_triple_byte_size(m1, t_size) # NoErr
        THEN Raise(m1, check_triple_byte_size(m1, t_size))
        ELSE IF check_byte_size(m2) # NoErr THEN Raise(m2, check_byte_size(m2))
        ELSE Try(rio_to_triple(m2, t, "resolve_and_reference_ns"), LAMBDA m3 :
                 [Log(m3, <<"triples.save", triple_key(m3.ret)>>)
                     EXCEPT !.triples = MapSave(@, triple_key(m3.ret), m3.ret)])

\* rdf::Atom -> model::Triple (`atom.into()`)
atom_into(atom) ==
    ModelTriple(
        IF atom.subject.kind = "NamedNode" THEN NamedNode(atom.subject.iri)
        ELSE BlankNode(atom.subject.id),
        NamedNode(atom.property.iri),
        CASE atom.value.kind = "NamedNode" -> NamedNode(atom.value.iri)
          [] atom.value.kind = "BlankNode" -> BlankNode(atom.value.id)
          [] atom.value.kind = "LiteralSimple" -> Simple(atom.value.value)
          [] atom.value.kind = "LiteralLang" ->
                LanguageTaggedString(atom.value.value, atom.value.language)
          [] atom.value.kind = "LiteralDatatype" ->
                Typed(atom.value.value, NamedNode(atom.value.datatype)))

\* StoreEngine::delete_triple
delete_triple(m, atom) ==
    Try(rio_to_triple(Log(m, <<"delete_triple">>), atom_into(atom), "resolve_and_free_ns"),
        LAMBDA m1 :
            LET count == Uint128Sub(m1.store.stat.triple_count, 1)
                size == Uint128Sub(m1.store.stat.byte_size, triple_size(atom_into(atom)))
            IN  IF ~count.ok THEN Panic(m1, "attempt to subtract with overflow")
                ELSE IF ~size.ok
                THEN Panic([m1 EXCEPT !.store.stat.triple_count = count.value],
                           "attempt to subtract with overflow")
                ELSE [Log(m1, <<"triples.remove", triple_key(m1.ret)>>)
                         EXCEPT !.store.stat.triple_count = count.value,
                                !.store.stat.byte_size = size.value,
                                !.triples = MapRemove(@, triple_key(m1.ret))])

RECURSIVE flush_ns_cache_count_kept(_, _)
\* a mutant of flush_ns_cache: the namespace count is not decreased on a removal
flush_ns_cache_count_kept(m, keys) ==
    IF keys = <<>> THEN m
    ELSE LET ns_str == Head(keys)
             entry == m.ns_cache[ns_str]
         IN  IF entry.counter > 0
             THEN flush_ns_cache_count_kept(
                      [Log(m, <<"namespaces.save", ns_str>>)
                          EXCEPT !.namespaces = MapSave(@, ns_str, entry)],
                      Tail(keys))
             ELSE flush_ns_cache_count_kept(
                      [Log(m, <<"namespaces.remove", ns_str>>)
                          EXCEPT !.namespaces = MapRemove(@, ns_str)],
                      Tail(keys))

RECURSIVE flush_ns_cache(_, _)
\* the loop of finish over the entries of ns_cache
flush_ns_cache(m, keys) ==
    IF keys = <<>> THEN m
    ELSE LET ns_str == Head(keys)
             entry == m.ns_cache[ns_str]
             count == Uint128Sub(m.store.stat.namespace_count, 1)
         IN  IF entry.counter > 0
             THEN flush_ns_cache(
                      [Log(m, <<"namespaces.save", ns_str>>)
                          EXCEPT !.namespaces = MapSave(@, ns_str, entry)],
                      Tail(keys))
             ELSE IF ~count.ok THEN Panic(m, "attempt to subtract with overflow")
             ELSE flush_ns_cache(
                      [Log(m, <<"namespaces.remove", ns_str>>)
                          EXCEPT !.store.stat.namespace_count = count.value,
                                 !.namespaces = MapRemove(@, ns_str)],
                      Tail(keys))

AbsDiff(a, b) == IF a >= b THEN a - b ELSE b - a

\* finish, its first write: the allocator offset
save_key_increment(m) ==
    [Log(m, <<"NAMESPACE_KEY_INCREMENT.save">>)
        EXCEPT !.NAMESPACE_KEY_INCREMENT = m.ns_key_inc_offset]

\* a mutant of finish: a namespace whose counter is 0 is saved like any other
finish_keep_zero(m) ==
    LET m1 == [Log(m, <<"NAMESPACE_KEY_INCREMENT.save">>)
                  EXCEPT !.NAMESPACE_KEY_INCREMENT = m.ns_key_inc_offset]
        m2 == [m1 EXCEPT !.namespaces =
                  [x \in DOMAIN m1.namespaces \cup DOMAIN m1.ns_cache |->
                      IF x \in DOMAIN m1.ns_cache THEN m1.ns_cache[x] ELSE m1.namespaces[x]]]
    IN  [Log(m2, <<"STORE.save">>)
            EXCEPT !.STORE = m2.store,
                   !.ret = AbsDiff(m2.store.stat.triple_count, m2.initial_triple_count),
                   !.initial_triple_count = m2.store.stat.triple_count,
                   !.initial_byte_size = m2.store.stat.byte_size,
                   !.ns_cache = EmptyMap]

\* a mutant of finish: returns the triple count instead of the difference
finish_returns_count(m) ==
    Try(flush_ns_cache(save_key_increment(m), SortedKeys(DOMAIN m.ns_cache)), LAMBDA m2 :
        [Log(m2, <<"STORE.save">>)
            EXCEPT !.STORE = m2.store,
                   !.ret = m2.store.stat.triple_count,
                   !.initial_triple_count = m2.store.stat.triple_count,
                   !.initial_byte_size = m2.store.stat.byte_size,
                   !.ns_cache = EmptyMap])

\* a mutant of finish: the batch-start counters are left as they were
finish_no_rebase(m) ==
    Try(flush_ns_cache(save_key_increment(m), SortedKeys(DOMAIN m.ns_cache)), LAMBDA m2 :
        [Log(m2, <<"STORE.save">>)
            EXCEPT !.STORE = m2.store,
                   !.ret = AbsDiff(m2.store.stat.triple_count, m2.initial_triple_count),
                   !.ns_cache = EmptyMap])

\* a mutant of finish: the statistics record is saved before the cache is flushed
finish_store_first(m) ==
    Try(flush_ns_cache([Log(save_key_increment(m), <<"STORE.save">>) EXCEPT !.STORE = m.store],
                       SortedKeys(DOMAIN m.ns_cache)), LAMBDA m2 :
        [m2 EXCEPT !.ret = AbsDiff(m2.store.stat.triple_count, m2.initial_triple_count),
                   !.initial_triple_count = m2.store.stat.triple_count,
                   !.initial_byte_size = m2.store.stat.byte_size,
                   !.ns_cache = EmptyMap])

\* StoreEngine::finish; the count is left in m.ret
finish(m) ==
    Try(flush_ns_cache(save_key_increment(m), SortedKeys(DOMAIN m.ns_cache)), LAMBDA m2 :
        [Log(m2, <<"STORE.save">>)
            EXCEPT !.STORE = m2.store,
                   !.ret = AbsDiff(m2.store.stat.triple_count, m2.initial_triple_count),
                   !.initial_triple_count = m2.store.stat.triple_count,
                   !.initial_byte_size = m2.store.stat.byte_size,
                   !.ns_cache = EmptyMap])

\* the error of the batch so far is kept, or else that of the last triple
first_err(m, m1) == [m1 EXCEPT !.err = IF m.err # NoErr THEN m.err ELSE m1.err]

RECURSIVE read_all_keep_going(_, _)
\* a mutant of read_all: a failed triple is skipped, the first error is returned at the end
read_all_keep_going(m, document) ==
    IF document = <<>> THEN m
    ELSE IF IsParseError(Head(document))
    THEN (IF m.err # NoErr THEN m ELSE Raise(m, Err("Parse", <<>>)))
    ELSE read_all_keep_going(
             first_err(m, store_triple([m EXCEPT !.err = NoErr], Head(document))),
             Tail(document))

RECURSIVE read_all(_, _)
\* TripleReader::read_all with |t| self.store_triple(t): stops at the first error
read_all(m, document) ==
    IF document = <<>> THEN m
    ELSE IF IsParseError(Head(document)) THEN Raise(m, Err("Parse", <<>>))
    ELSE Try(store_triple(m, Head(document)), LAMBDA m1 : read_all(m1, Tail(document)))

\* the commit step runs on what a failed batch left, and the error is returned
finish_anyway(m1) ==
    IF m1.err # NoErr /\ ~IsPanic(m1.err)
    THEN [finish([m1 EXCEPT !.err = NoErr]) EXCEPT !.err = m1.err]
    ELSE Try(m1, finish)

\* a mutant of store_all: the commit step runs before the document is read
store_all_commit_first(m, document) ==
    Try(finish(m), LAMBDA m1 : read_all(m1, document))

\* a mutant of store_all: the commit step runs whatever read_all returned
store_all_always_finish(m, document) == finish_anyway(read_all(m, document))

\* StoreEngine::store_all
store_all(m, document) == Try(read_all(m, document), finish)

RECURSIVE delete_each(_, _)
\* the loop of delete_all over the atoms
delete_each(m, atoms) ==
    IF atoms = <<>> THEN m
    ELSE Try(delete_triple(m, Head(atoms)), LAMBDA m1 : delete_each(m1, Tail(atoms)))

\* StoreEngine::delete_all
delete_all(m, atoms) == Try(delete_each(m, atoms), finish)

----------------------------------------------------------------------------
(* The inputs of the model *)

IriAX == <<"a", ":", "x">>
IriAE == <<"a", ":", "e">>
IriBY == <<"b", "/", "y">>
NoDelimiter == <<"x">>

\* rdf::Atom and its terms
Atom(s, p, v) == [subject |-> s, property |-> p, value |-> v]
LiteralSimple(v) == [kind |-> "LiteralSimple", value |-> v]
LiteralLang(v, l) == [kind |-> "LiteralLang", value |-> v, language |-> l]
LiteralDatatype(v, d) == [kind |-> "LiteralDatatype", value |-> v, datatype |-> d]

\* the triples of the model, as atoms: with a simple literal, with named subject
\* and object, with a typed literal, with a language-tagged string
AtomSimple == Atom(BlankNode(<<"s">>), NamedNode(IriAX), LiteralSimple(<<"v">>))
AtomNamed == Atom(NamedNode(IriAX), NamedNode(IriAX), NamedNode(IriBY))
AtomTyped == Atom(BlankNode(<<"s">>), NamedNode(IriBY), LiteralDatatype(<<"v">>, IriAE))
AtomLang == Atom(BlankNode(<<"s">>), NamedNode(IriBY), LiteralLang(<<"e", "e">>, <<"n", "o">>))
GoodAtoms == {AtomSimple, AtomNamed, AtomTyped, AtomLang}

\* atoms with an IRI without delimiter as subject, predicate, object and datatype
BadAtoms ==
    {Atom(NamedNode(NoDelimiter), NamedNode(IriAX), BlankNode(<<"o">>)),
     Atom(NamedNode(IriAX), NamedNode(NoDelimiter), BlankNode(<<"o">>)),
     Atom(NamedNode(IriAX), NamedNode(IriAX), NamedNode(NoDelimiter)),
     Atom(NamedNode(IriAX), NamedNode(IriAX), LiteralDatatype(<<"v">>, NoDelimiter))}

\* triples with a quoted triple as subject and as object
QuotedItems ==
    {ModelTriple(QuotedTriple, NamedNode(IriAX), Simple(<<"v">>)),
     ModelTriple(NamedNode(IriAX), NamedNode(IriAX), QuotedTriple)}

GoodItems == {atom_into(a) : a \in GoodAtoms}
\* the items no store_triple accepts, whatever the state
BadItems == {atom_into(a) : a \in BadAtoms} \cup QuotedItems
Items == GoodItems \cup BadItems \cup {ParseError}

RECURSIVE SeqsUpTo(_, _)
SeqsUpTo(S, n) ==
    IF n = 0 THEN {<<>>}
    ELSE LET shorter == SeqsUpTo(S, n - 1)
         IN  shorter \cup {Append(q, x) : q \in {y \in shorter : Len(y) = n - 1}, x \in S}

\* The documents store_all is called with.  A document is read up to its first
\* parse error; what follows an item of BadItems is never read, and is taken
\* to be the triple with the simple literal.
Documents ==
    {d \in SeqsUpTo(Items, MaxBatch) :
        \A i \in 1..Len(d) - 1 :
            /\ ~IsParseError(d[i])
            /\ d[i] \in BadItems => d[i + 1] = atom_into(AtomSimple)}

\* the atom lists delete_all is called with
AtomLists ==
    {l \in SeqsUpTo(GoodAtoms \cup BadAtoms, MaxBatch) :
        \A i \in 1..Len(l) - 1 : l[i] \in BadAtoms => l[i + 1] = AtomSimple}

\* Store.limits: the limits a store is instantiated with
Limits ==
    {[max_triple_count |-> 3, max_triple_byte_size |-> 9, max_byte_size |-> 23,
      max_insert_data_triple_count |-> 2, max_insert_data_byte_size |-> 17],
     [max_triple_count |-> 3, max_triple_byte_size |-> 10, max_byte_size |-> 22,
      max_insert_data_triple_count |-> 1, max_insert_data_byte_size |-> 16]}

\* the documents stored before the run starts
SeedDocuments ==
    {<<>>, <<atom_into(AtomNamed)>>, <<atom_into(AtomLang)>>,
     <<atom_into(AtomSimple), atom_into(AtomTyped)>>}

\* the namespaces the IRIs of a triple refer to, one per reference
RECURSIVE Count(_, _)
Count(seq, x) ==
    IF seq = <<>> THEN 0 ELSE (IF Head(seq) = x THEN 1 ELSE 0) + Count(Tail(seq), x)

NamedIris(triple) ==
    (IF triple.subject.kind = "NamedNode" THEN <<triple.subject.iri>> ELSE <<>>)
        \o <<triple.predicate.iri>>
        \o (CASE triple.object.kind = "NamedNode" -> <<triple.object.iri>>
              [] triple.object.kind = "Literal" /\ triple.object.literal.kind = "Typed" ->
                    <<triple.object.literal.datatype.iri>>
              [] OTHER -> <<>>)

NsOf(i) == explode_iri(i).ns
AllNs == {NsOf(IriAX), NsOf(IriBY)}

\* the number of references to namespace ns in a triple, in a list of triples
RefsOfTriple(triple, ns) ==
    LET iris == NamedIris(triple)
    IN  Count([i \in 1..Len(iris) |-> NsOf(iris[i])], ns)

RECURSIVE RefsOf(_, _)
RefsOf(batch, ns) ==
    IF batch = <<>> THEN 0 ELSE RefsOfTriple(Head(batch), ns) + RefsOf(Tail(batch), ns)

AsTriples(atoms) == [i \in 1..Len(atoms) |-> atom_into(atoms[i])]

----------------------------------------------------------------------------
(* The state machine *)

\* no call has been made on the engine; nth counts the calls made on it
NoCall == [op |-> "new", batch |-> <<>>, result |-> Ok(0), log |-> <<>>, nth |-> 0]
NoSnapshot == [valid |-> FALSE, age |-> 0, document |-> <<>>,
               stat |-> [triple_count |-> 0, byte_size |-> 0, namespace_count |-> 0],
               namespaces |-> EmptyMap]

\* the storage after instantiation with the given limits, in a build profile
Instantiated(limits, checks) ==
    [STORE |-> [stat |-> [triple_count |-> 0, byte_size |-> 0, namespace_count |-> 0],
                limits |-> limits],
     NAMESPACE_KEY_INCREMENT |-> 0, namespaces |-> EmptyMap, triples |-> EmptyMap,
     store |-> 0, ns_key_inc_offset |-> 0, ns_cache |-> EmptyMap,
     initial_triple_count |-> 0, initial_byte_size |-> 0, overflow_checks |-> checks,
     err |-> NoErr, ret |-> 0, log |-> <<>>]

\* what try_from has returned before it is called
NotConverted == [ok |-> FALSE, value |-> 0, err |-> Err("not converted", <<>>)]
NotMapped == [subject |-> NotConverted, property |-> NotConverted, object |-> NotConverted]

\* no value is handed to the mapper
NothingToMap ==
    /\ msg_value = [kind |-> "none"]
    /\ prefixes = EmptyMap
    /\ mapped = NotMapped

\* the variables of the storage and of the engine are those of machine m
IsMachine(m) ==
    /\ STORE = m.STORE
    /\ NAMESPACE_KEY_INCREMENT = m.NAMESPACE_KEY_INCREMENT
    /\ namespaces = m.namespaces
    /\ triples = m.triples
    /\ store = m.store
    /\ ns_key_inc_offset = m.ns_key_inc_offset
    /\ ns_cache = m.ns_cache
    /\ initial_triple_count = m.initial_triple_count
    /\ initial_byte_size = m.initial_byte_size

\* The machines a run starts from: a store instantiated with some limits, in
\* which an earlier engine has stored and committed a document of SeedDocuments.
Seeds ==
    {s \in {[document |-> seed,
             machine |-> store_all(new(Instantiated(limits, checks)), seed)] :
                 limits \in Limits, seed \in SeedDocuments, checks \in BOOLEAN} :
        s.machine.err = NoErr}

\* StoreEngine::new over the storage of a seed
Init ==
    /\ \E s \in Seeds :
          /\ IsMachine(new(s.machine))
          /\ overflow_checks = s.machine.overflow_checks
          /\ refs = [ns \in AllNs |-> RefsOf(s.document, ns)]
    /\ alive = TRUE
    /\ calls = 0
    /\ call = NoCall
    /\ before = NoSnapshot
    /\ iri = <<>>
    /\ exploded = explode_iri(<<>>)
    /\ NothingToMap

\* the variables of the storage and of the engine become those of machine m
BecomesMachine(m) ==
    /\ STORE' = m.STORE
    /\ NAMESPACE_KEY_INCREMENT' = m.NAMESPACE_KEY_INCREMENT
    /\ namespaces' = m.namespaces
    /\ triples' = m.triples
    /\ store' = m.store
    /\ ns_key_inc_offset' = m.ns_key_inc_offset
    /\ ns_cache' = m.ns_cache
    /\ initial_triple_count' = m.initial_triple_count
    /\ initial_byte_size' = m.initial_byte_size

\* StoreEngine::new: the engine is dropped and a new one made over the storage
New ==
    /\ call.op # "new"
    /\ BecomesMachine(new(Machine))
    /\ alive' = TRUE
    /\ call' = NoCall
    /\ UNCHANGED <<calls, overflow_checks, refs, before, iri, exploded, mapperVars>>

\* the state a call leaves behind; an engine whose call failed is not called again
Returns(op, batch, m) ==
    /\ BecomesMachine(m)
    /\ alive' = (m.err = NoErr)
    /\ calls' = calls + 1
    /\ call' = [op |-> op, batch |-> batch,
                result |-> IF m.err = NoErr THEN Ok(m.ret) ELSE Failed(m.err),
                log |-> m.log, nth |-> call.nth + 1]
    /\ UNCHANGED <<overflow_checks, iri, exploded, mapperVars>>

CanCall == alive /\ calls < MaxCalls

\* store_all has left machine m: the references of a committed document are
\* counted, and the storage before it is remembered
StoreAllReturns(document, m) ==
    /\ Returns("store_all", document, m)
    /\ refs' = IF m.err = NoErr
               THEN [ns \in AllNs |-> refs[ns] + RefsOf(document, ns)]
               ELSE refs
    /\ before' = IF m.err = NoErr
                 THEN [valid |-> TRUE, age |-> 0, document |-> document,
                       stat |-> STORE.stat, namespaces |-> namespaces]
                 ELSE NoSnapshot

\* delete_all has left machine m
DeleteAllReturns(atoms, m) ==
    /\ Returns("delete_all", atoms, m)
    /\ refs' = IF m.err = NoErr
               THEN [ns \in AllNs |-> refs[ns] - RefsOf(AsTriples(atoms), ns)]
               ELSE refs
    /\ before' = IF m.err = NoErr /\ before.valid /\ before.age = 0
                 THEN [before EXCEPT !.age = 1]
                 ELSE NoSnapshot

\* store_all on a document
StoreAllCall ==
    \E document \in Documents : StoreAllReturns(document, store_all(Machine, document))

\* delete_all on a list of atoms
DeleteAllCall ==
    \E atoms \in AtomLists : DeleteAllReturns(atoms, delete_all(Machine, atoms))

StoreAll == CanCall /\ StoreAllCall
DeleteAll == CanCall /\ DeleteAllCall

Next == New \/ StoreAll \/ DeleteAll

Spec == Init /\ [][Next]_vars

\* the last call on the engine returned an error; a panic ends the execution
CanCallAgain == ~alive /\ ~IsPanic(call.result.err) /\ calls < MaxCalls

StoreAllAgain == CanCallAgain /\ StoreAllCall
DeleteAllAgain == CanCallAgain /\ DeleteAllCall

NextReuse == Next \/ StoreAllAgain \/ DeleteAllAgain

SpecReuse == Init /\ [][NextReuse]_vars

----------------------------------------------------------------------------
(* explode_iri on its own *)

NotExploded == [ok |-> FALSE, ns |-> <<"?">>, local |-> <<"?">>]

InitExplode ==
    /\ IsMachine(new(Instantiated(CHOOSE l \in Limits : l.max_insert_data_triple_count = 2, TRUE)))
    /\ refs = [ns \in AllNs |-> 0]
    /\ alive = TRUE
    /\ calls = 0
    /\ overflow_checks = TRUE
    /\ call = NoCall
    /\ before = NoSnapshot
    /\ iri \in StringsUpTo(MaxIriLen)
    /\ exploded = NotExploded
    /\ NothingToMap

ExplodeIri ==
    /\ exploded = NotExploded
    /\ exploded' = explode_iri(iri)
    /\ UNCHANGED <<storageVars, engineVars, refs, before, iri, mapperVars>>

NextExplode == ExplodeIri

SpecExplode == InitExplode /\ [][NextExplode]_vars

----------------------------------------------------------------------------
(* rdf/mapper.rs: the external description of a term (msg::Value), and its  *)
(* conversion into the Subject, Property and Value of an rdf::Atom          *)

None == [some |-> FALSE]
Some(x) == [some |-> TRUE, value |-> x]

\* msg::IRI
Full(uri) == [kind |-> "Full", value |-> uri]
Prefixed(curie) == [kind |-> "Prefixed", value |-> curie]

\* msg::Value
URI(i) == [kind |-> "URI", value |-> i]
MsgBlankNode(id) == [kind |-> "BlankNode", value |-> id]
Literal(value, lang, datatype) ==
    [kind |-> "Literal", value |-> value, lang |-> lang, datatype |-> datatype]

\* rdf::Property
Property(uri) == NamedNode(uri)

\* rdf::expand_uri: the prefix of `prefix:local` is looked up in the prefix map,
\* and an unknown prefix is an error
expand_uri(curie, prefix_map) ==
    LET index == rfind(curie, ":")
        prefix == SubSeq(curie, 1, index - 1)
    IN  IF prefix \notin DOMAIN prefix_map
        THEN Failed(Err("namespace not found", <<prefix>>))
        ELSE Ok(prefix_map[prefix] \o SubSeq(curie, index + 1, Len(curie)))

\* the StdError::generic_err of a value that its position does not take
Unsupported(position, value, expected) ==
    Failed(Err("Unsupported " \o position \o " value", <<value, "Expected " \o expected>>))

\* TryFrom<(msg::Value, &HashMap<String, String>)> for Subject
Subject_try_from(value, prefix_map) ==
    CASE value.kind = "URI" /\ value.value.kind = "Full" -> Ok(NamedNode(value.value.value))
      [] value.kind = "URI" /\ value.value.kind = "Prefixed" ->
            LET uri == expand_uri(value.value.value, prefix_map)
            IN  IF uri.ok THEN Ok(NamedNode(uri.value)) ELSE uri
      [] value.kind = "BlankNode" -> Ok(BlankNode(value.value))
      [] OTHER -> Unsupported("subject", value, "URI or BlankNode")

\* a mutant of Property_try_from: a blank node is taken, as for a subject
Property_try_from_blank(value, prefix_map) == Subject_try_from(value, prefix_map)

\* TryFrom<(msg::Value, &HashMap<String, String>)> for Property
Property_try_from(value, prefix_map) ==
    CASE value.kind = "URI" /\ value.value.kind = "Full" -> Ok(Property(value.value.value))
      [] value.kind = "URI" /\ value.value.kind = "Prefixed" ->
            LET uri == expand_uri(value.value.value, prefix_map)
            IN  IF uri.ok THEN Ok(Property(uri.value)) ELSE uri
      [] OTHER -> Unsupported("predicate", value, "URI")

\* a mutant of Value_try_from: a language tag is taken whatever the datatype
Value_try_from_lang_wins(value, prefix_map) ==
    CASE value.kind = "URI" /\ value.value.kind = "Full" -> Ok(NamedNode(value.value.value))
      [] value.kind = "URI" /\ value.value.kind = "Prefixed" ->
            LET uri == expand_uri(value.value.value, prefix_map)
            IN  IF uri.ok THEN Ok(NamedNode(uri.value)) ELSE uri
      [] value.kind = "Literal" /\ value.lang.some ->
            Ok(LiteralLang(value.value, value.lang.value))
      [] value.kind = "Literal" /\ ~value.datatype.some -> Ok(LiteralSimple(value.value))
      [] value.kind = "Literal" /\ value.datatype.value.kind = "Full" ->
            Ok(LiteralDatatype(value.value, value.datatype.value.value))
      [] value.kind = "Literal" ->
            LET uri == expand_uri(value.datatype.value.value, prefix_map)
            IN  IF uri.ok THEN Ok(LiteralDatatype(value.value, uri.value)) ELSE uri
      [] value.kind = "BlankNode" -> Ok(BlankNode(value.value))
      [] OTHER -> Unsupported("object", value, "URI, BlankNode or Literal")

\* TryFrom<(msg::Value, &HashMap<String, String>)> for Value
Value_try_from(value, prefix_map) ==
    CASE value.kind = "URI" /\ value.value.kind = "Full" -> Ok(NamedNode(value.value.value))
      [] value.kind = "URI" /\ value.value.kind = "Prefixed" ->
            LET uri == expand_uri(value.value.value, prefix_map)
            IN  IF uri.ok THEN Ok(NamedNode(uri.value)) ELSE uri
      [] value.kind = "Literal" /\ ~value.lang.some /\ ~value.datatype.some ->
            Ok(LiteralSimple(value.value))
      [] value.kind = "Literal" /\ value.lang.some /\ ~value.datatype.some ->
            Ok(LiteralLang(value.value, value.lang.value))
      [] value.kind = "Literal" /\ ~value.lang.some /\ value.datatype.value.kind = "Full" ->
            Ok(LiteralDatatype(value.value, value.datatype.value.value))
      [] value.kind = "Literal" /\ ~value.lang.some /\ value.datatype.value.kind = "Prefixed" ->
            LET uri == expand_uri(value.datatype.value.value, prefix_map)
            IN  IF uri.ok THEN Ok(LiteralDatatype(value.value, uri.value)) ELSE uri
      [] value.kind = "BlankNode" -> Ok(BlankNode(value.value))
      [] OTHER -> Unsupported("object", value, "URI, BlankNode or Literal")

\* the IRIs of the descriptions: a full one, a CURIE with prefix "a", one with "n"
CurieAX == IriAX
CurieNX == <<"n", ":", "x">>
MsgIris == {Full(IriBY), Prefixed(CurieAX), Prefixed(CurieNX)}

\* the descriptions handed to the mapper
MsgValues ==
    {URI(i) : i \in MsgIris} \cup {MsgBlankNode(<<"s">>)}
        \cup {Literal(value, lang, datatype) :
                  value \in {<<>>, <<"v">>},
                  lang \in {None, Some(<<"n", "o">>)},
                  datatype \in {None} \cup {Some(i) : i \in MsgIris}}

\* the prefix maps: empty, with the prefix "a", with the prefixes "a" and "n"
PrefixMaps ==
    {EmptyMap,
     [x \in {<<"a">>} |-> NsOf(IriBY)],
     [x \in {<<"a">>, <<"n">>} |-> IF x = <<"a">> THEN NsOf(IriBY) ELSE NsOf(IriAX)]}

InitMapper ==
    /\ IsMachine(new(Instantiated(CHOOSE l \in Limits : l.max_insert_data_triple_count = 2, TRUE)))
    /\ refs = [ns \in AllNs |-> 0]
    /\ alive = TRUE
    /\ calls = 0
    /\ overflow_checks = TRUE
    /\ call = NoCall
    /\ before = NoSnapshot
    /\ iri = <<>>
    /\ exploded = explode_iri(<<>>)
    /\ msg_value \in MsgValues
    /\ prefixes \in PrefixMaps
    /\ mapped = NotMapped

\* Subject::try_from on the description
SubjectTryFrom ==
    /\ mapped.subject = NotConverted
    /\ mapped' = [mapped EXCEPT !.subject = Subject_try_from(msg_value, prefixes)]
    /\ UNCHANGED <<storageVars, engineVars, refs, before, iri, exploded, msg_value, prefixes>>

\* Property::try_from on the description
PropertyTryFrom ==
    /\ mapped.property = NotConverted
    /\ mapped' = [mapped EXCEPT !.property = Property_try_from(msg_value, prefixes)]
    /\ UNCHANGED <<storageVars, engineVars, refs, before, iri, exploded, msg_value, prefixes>>

\* Value::try_from on the description
ValueTryFrom ==
    /\ mapped.object = NotConverted
    /\ mapped' = [mapped EXCEPT !.object = Value_try_from(msg_value, prefixes)]
    /\ UNCHANGED <<storageVars, engineVars, refs, before, iri, exploded, msg_value, prefixes>>

NextMapper == SubjectTryFrom \/ PropertyTryFrom \/ ValueTryFrom

SpecMapper == InitMapper /\ [][NextMapper]_vars

----------------------------------------------------------------------------
(* Vocabulary of the properties *)

QuotaKinds ==
    {"TripleCount", "InsertDataTripleCount", "TripleByteSize", "ByteSize",
     "InsertDataByteSize"}

\* the step is a call of store_all, of delete_all, of either
StoreAllStep == calls' = calls + 1 /\ call'.op = "store_all"
DeleteAllStep == calls' = calls + 1 /\ call'.op = "delete_all"
CallStep == StoreAllStep \/ DeleteAllStep

\* the call returned an error (it did not panic)
ReturnedErr(c) == ~c.result.ok /\ ~IsPanic(c.result.err)

\* the number of events of a kind in a log
RECURSIVE Events(_, _)
Events(log, kind) ==
    IF log = <<>> THEN 0
    ELSE (IF Head(log)[1] = kind THEN 1 ELSE 0) + Events(Tail(log), kind)

\* the commit step has started in the call
Committing(c) == Events(c.log, "NAMESPACE_KEY_INCREMENT.save") > 0

RECURSIVE SizeOf(_)
\* the byte size of the first triples of a document
SizeOf(document) ==
    IF document = <<>> THEN 0 ELSE triple_size(Head(document)) + SizeOf(Tail(document))

\* The first bound that the i-th triple of a document violates, "none" if it
\* violates none, when the document is stored in a store with statistics stat.
FirstViolated(stat, limits, document, i) ==
    LET count == stat.triple_count + i
        size == triple_size(document[i])
        bytes == SizeOf(SubSeq(document, 1, i))
    IN  IF count > limits.max_triple_count THEN "TripleCount"
        ELSE IF i > limits.max_insert_data_triple_count THEN "InsertDataTripleCount"
        ELSE IF size > limits.max_triple_byte_size THEN "TripleByteSize"
        ELSE IF stat.byte_size + bytes > limits.max_byte_size THEN "ByteSize"
        ELSE IF bytes > limits.max_insert_data_byte_size THEN "InsertDataByteSize"
        ELSE "none"

\* the limit an error of a kind carries
LimitOf(limits, kind) ==
    CASE kind = "TripleCount" -> limits.max_triple_count
      [] kind = "InsertDataTripleCount" -> limits.max_insert_data_triple_count
      [] kind = "TripleByteSize" -> limits.max_triple_byte_size
      [] kind = "ByteSize" -> limits.max_byte_size
      [] kind = "InsertDataByteSize" -> limits.max_insert_data_byte_size

----------------------------------------------------------------------------
(* Properties *)

\* C1: Quota monotonicity.  A store_all that takes the triple count to at most
\* max_triple_count is not refused for the triple count, and when it succeeds
\* the persisted count has grown by the length of the document; a store_all
\* whose document starts with a triple, called when the count equals
\* max_triple_count, fails with TripleCount(max_triple_count) and leaves the
\* persisted Store record as it was.
C1_QuotaMonotonicity ==
    [][StoreAllStep =>
        LET max == STORE.limits.max_triple_count
            document == call'.batch
        IN  /\ STORE.stat.triple_count + Len(document) <= max
                 => /\ call'.result.err.kind # "TripleCount"
                    /\ call'.result.ok =>
                          STORE'.stat.triple_count = STORE.stat.triple_count + Len(document)
            /\ (STORE.stat.triple_count = max /\ document # <<>> /\ ~IsParseError(document[1]))
                 => /\ call'.result = Failed(Err("TripleCount", <<max>>))
                    /\ STORE' = STORE]_vars

\* C1 witness: a store_all refused for the triple count in a store that holds
\* exactly max_triple_count triples
C1_Witness ==
    /\ call.op = "store_all"
    /\ call.result.err.kind = "TripleCount"
    /\ STORE.stat.triple_count = STORE.limits.max_triple_count

\* C2: The bounds are evaluated per triple in the order triple count, inserted
\* triple count, triple byte size, byte size, inserted byte size.  No triple
\* before the last one processed violates a bound; a quota error is the first
\* bound the last processed triple violates and carries that limit; the call
\* ends there, with no later triple processed and nothing saved for the triple.
C2_BoundsInOrder ==
    [][StoreAllStep =>
        LET document == call'.batch
            k == Events(call'.log, "store_triple")
            kind == call'.result.err.kind
            limits == STORE.limits
        IN  /\ \A i \in 1..(k - 1) : FirstViolated(STORE.stat, limits, document, i) = "none"
            /\ k > 0 =>
                  FirstViolated(STORE.stat, limits, document, k)
                      = (IF kind \in QuotaKinds THEN kind ELSE "none")
            /\ kind \in QuotaKinds =>
                  /\ k > 0
                  /\ call'.log[Len(call'.log)] = <<"store_triple">>
                  /\ Events(call'.log, "triples.save") = k - 1
                  /\ call'.result.err.args =
                        (IF kind = "TripleByteSize"
                         THEN <<triple_size(document[k]), LimitOf(limits, kind)>>
                         ELSE <<LimitOf(limits, kind)>>)]_vars

\* C2 witness: a triple that violates the total and the per-call triple count
\* at once is refused for the total
C2_Witness ==
    /\ call.op = "store_all"
    /\ call.result.err.kind = "TripleCount"
    /\ store.stat.triple_count - initial_triple_count
          > store.limits.max_insert_data_triple_count

\* C3: A store_all or delete_all that returns an error has not run the commit
\* step: the persisted Store record, the namespace table and the allocator
\* offset are as they were before the call.
C3_ErrorCommitsNothing ==
    [][(CallStep /\ ReturnedErr(call')) =>
        /\ ~Committing(call')
        /\ STORE' = STORE
        /\ namespaces' = namespaces
        /\ NAMESPACE_KEY_INCREMENT' = NAMESPACE_KEY_INCREMENT]_vars

\* C3 witness: a call fails after it has changed the statistics, the namespace
\* cache and the allocator offset of the engine
C3_Witness ==
    /\ call.op \in {"store_all", "delete_all"}
    /\ ReturnedErr(call)
    /\ store.stat # STORE.stat
    /\ ns_cache # EmptyMap
    /\ ns_key_inc_offset # NAMESPACE_KEY_INCREMENT

\* the log of a call that processed n items and failed on the next one:
\* each of the n is started and saved (removed), the failing one is only started
Alternates(log, start, write, n, started) ==
    /\ Len(log) = 2 * n + (IF started THEN 1 ELSE 0)
    /\ \A j \in 1..Len(log) : log[j][1] = (IF j % 2 = 1 THEN start ELSE write)

\* the keys a log writes with events of a kind
Written(log, kind) == {log[j][2] : j \in {x \in 1..Len(log) : log[x][1] = kind}}

\* C4 as claimed: a store_all or delete_all that returns an error has written
\* and removed no record of the triple table.
C4_NoPartialWrite ==
    [][(CallStep /\ ReturnedErr(call')) => triples' = triples]_vars

\* C4 as amended: when store_all returns an error on the k-th item of a
\* document, the records of the k-1 triples before it have been saved in the
\* triple table, one after the other, and no record has been removed or
\* changed; when delete_all returns an error on the k-th atom, the records of
\* the k-1 atoms before it have been removed and none saved or changed.
C4_WritesUpToFailure ==
    [][(CallStep /\ ReturnedErr(call')) =>
        LET log == call'.log
            op == call'.op
        IN  /\ op = "store_all" =>
                  LET n == Events(log, "triples.save")
                  IN  /\ Alternates(log, "store_triple", "triples.save", n,
                                    call'.result.err.kind # "Parse")
                      /\ n < Len(call'.batch)
                      /\ DOMAIN triples' = DOMAIN triples \cup Written(log, "triples.save")
                      /\ \A key \in DOMAIN triples : triples'[key] = triples[key]
                      /\ \A i \in 1..n :
                            triples'[log[2 * i][2]].predicate.value
                                = explode_iri(call'.batch[i].predicate.iri).local
            /\ op = "delete_all" =>
                  LET n == Events(log, "triples.remove")
                  IN  /\ Alternates(log, "delete_triple", "triples.remove", n, TRUE)
                      /\ n < Len(call'.batch)
                      /\ DOMAIN triples' = DOMAIN triples \ Written(log, "triples.remove")
                      /\ \A key \in DOMAIN triples' : triples'[key] = triples[key]]_vars

\* C4 witness: a failed store_all has left the record of its first triple in
\* the triple table of a store whose statistics count no triple
C4_Witness ==
    /\ call.op = "store_all"
    /\ ReturnedErr(call)
    /\ Events(call.log, "triples.save") = 1
    /\ Written(call.log, "triples.save") \subseteq DOMAIN triples
    /\ STORE.stat.triple_count = 0

\* C5: Namespace reference counting is conserved.  A namespace to which the
\* committed batches have added as many references as they have released has
\* no record in the namespace table.
C5_NetZeroNamespaceAbsent ==
    \A ns \in AllNs : refs[ns] = 0 => ns \notin DOMAIN namespaces

\* C5 witness: a delete_all has released the last references to a namespace
\* that had a record, and its commit has removed the record
C5_Witness ==
    /\ call.op = "delete_all"
    /\ call.result.ok
    /\ \E ns \in AllNs :
          /\ refs[ns] = 0
          /\ RefsOf(AsTriples(call.batch), ns) > 1
          /\ <<"namespaces.remove", ns>> \in {call.log[j] : j \in 1..Len(call.log)}

\* C6: Every record of the persisted namespace table has counter > 0.
C6_NoZeroCounterPersisted ==
    \A ns \in DOMAIN namespaces : namespaces[ns].counter > 0

\* C6 witness: one commit has saved a namespace and removed another
C6_Witness ==
    /\ call.result.ok
    /\ Events(call.log, "namespaces.save") > 0
    /\ Events(call.log, "namespaces.remove") > 0

\* C7: Insert/delete round trip.  After a successful store_all of a document
\* and a successful delete_all of the same triples, the persisted statistics
\* and the namespace table are what they were before the store_all, and the
\* namespace cache of the engine is empty.
C7_RoundTrip ==
    (/\ call.op = "delete_all"
     /\ call.result.ok
     /\ before.valid
     /\ before.age = 1
     /\ AsTriples(call.batch) = before.document)
        => /\ STORE.stat = before.stat
           /\ namespaces = before.namespaces
           /\ ns_cache = EmptyMap

\* C7 witness: the round trip of two triples, one with a typed literal, in a
\* store that held a triple before
C7_Witness ==
    /\ call.op = "delete_all"
    /\ call.result.ok
    /\ before.valid
    /\ before.age = 1
    /\ AsTriples(call.batch) = before.document
    /\ Len(call.batch) = 2
    /\ AtomTyped \in {call.batch[i] : i \in 1..2}
    /\ before.stat.triple_count > 0

\* C8: A successful call returns the absolute difference between the triple
\* count before and after it, which is the number of triples of the document
\* for store_all and the number of atoms for delete_all.
C8_FinishReturnsCountDiff ==
    [][(CallStep /\ call'.result.ok) =>
        /\ call'.result.value
              = AbsDiff(STORE'.stat.triple_count, STORE.stat.triple_count)
        /\ call'.result.value = Len(call'.batch)]_vars

\* C8 witness: a delete_all of two atoms returns 2 and leaves triples behind
C8_Witness ==
    /\ call.op = "delete_all"
    /\ call.result = Ok(2)
    /\ STORE.stat.triple_count > 0

\* the positions of the delimiters in a string
DelimiterPositions(s) ==
    {i \in 1..Len(s) : \E d \in 1..Len(Delimiters) : s[i] = Delimiters[d]}

\* C9: For an IRI with a delimiter, explode_iri returns a namespace and a local
\* name that concatenate to the IRI; the namespace ends at the last position of
\* a delimiter in the IRI, and the local name holds no delimiter.
C9_ExplodeSplitsAtLastDelimiter ==
    (exploded # NotExploded /\ DelimiterPositions(iri) # {}) =>
        /\ exploded.ok
        /\ exploded.ns \o exploded.local = iri
        /\ \A i \in DelimiterPositions(iri) : i <= Len(exploded.ns)
        /\ Len(exploded.ns) \in DelimiterPositions(iri)
        /\ DelimiterPositions(exploded.local) = {}

\* C9 witness: an IRI is split whose last delimiter is not the last of the
\* three kinds that occur in it, and that has a local name
C9_Witness ==
    /\ exploded # NotExploded
    /\ exploded.ok
    /\ exploded.local # <<>>
    /\ rfind(iri, ":") # 0
    /\ rfind(iri, "#") > rfind(iri, ":")

\* an IRI without delimiter stands in a named position of the triple
HasBareIri(triple) ==
    LET iris == NamedIris(triple)
    IN  \E i \in 1..Len(iris) : DelimiterPositions(iris[i]) = {}

\* the triples of the batch of a call (the atoms of delete_all as triples)
TriplesOf(c) ==
    IF c.op = "delete_all" THEN AsTriples(c.batch)
    ELSE SelectSeq(c.batch, LAMBDA item : ~IsParseError(item))

\* explode_iri fails for every string without delimiter, up to the length bound
BareIrisFail ==
    \A s \in StringsUpTo(MaxIriLen) : DelimiterPositions(s) = {} => ~explode_iri(s).ok

\* C10: explode_iri fails for every IRI without delimiter, and a store_all or
\* delete_all whose batch holds a triple with such an IRI in a named position
\* does not succeed and does not run the commit step; the error of explode_iri
\* is returned only for a triple with such an IRI.
C10_BareIriAbortsBatch ==
    /\ BareIrisFail
    /\ call.op \in {"store_all", "delete_all"} =>
          LET batch == TriplesOf(call)
              k == Events(call.log, IF call.op = "store_all" THEN "store_triple"
                                    ELSE "delete_triple")
          IN  /\ (\E i \in 1..Len(batch) : HasBareIri(batch[i]))
                    => ~call.result.ok /\ ~Committing(call)
              /\ call.result.err.kind = "Couldn't extract IRI namespace"
                    => k > 0 /\ HasBareIri(batch[k])
              /\ (k > 0 /\ HasBareIri(batch[k]) /\ ReturnedErr(call))
                    => call.result.err.kind
                          \in {"Couldn't extract IRI namespace", "NotFound"}
                                 \cup QuotaKinds

\* C10 witness: a delete_all is aborted by the datatype of a typed literal,
\* after the namespaces of subject and predicate have been released
C10_Witness ==
    /\ call.op = "delete_all"
    /\ call.result.err.kind = "Couldn't extract IRI namespace"
    /\ LET k == Events(call.log, "delete_triple")
       IN  /\ call.batch[k].value.kind = "LiteralDatatype"
           /\ DelimiterPositions(call.batch[k].value.datatype) = {}
    /\ ns_cache # EmptyMap

\* the namespaces with a record in the namespace table or an entry in the cache
KnownNs == DOMAIN namespaces \cup DOMAIN ns_cache

\* the atom releases a namespace that is not known
ReleasesUnknown(atom) ==
    \E ns \in AllNs \ KnownNs : RefsOfTriple(atom_into(atom), ns) > 0

\* C11: Releasing a namespace that has neither a cache entry nor a record is an
\* error and not an allocation.  A delete_all creates no cache entry for such a
\* namespace; if one of its atoms releases one, the call fails without running
\* the commit step, and the allocator offset and the namespace count of the
\* engine and of the storage are unchanged; the error NotFound is returned only
\* for an atom that releases such a namespace, and always when it is the first
\* namespace the call resolves.
C11_FreeUnknownNamespaceFails ==
    [][DeleteAllStep =>
        LET atoms == call'.batch
            k == Events(call'.log, "delete_triple")
        IN  /\ \A ns \in AllNs \ KnownNs : ns \notin DOMAIN ns_cache'
            /\ (\E i \in 1..Len(atoms) : ReleasesUnknown(atoms[i])) =>
                  /\ ~call'.result.ok
                  /\ ~Committing(call')
                  /\ ns_key_inc_offset' = ns_key_inc_offset
                  /\ store'.stat.namespace_count = store.stat.namespace_count
                  /\ NAMESPACE_KEY_INCREMENT' = NAMESPACE_KEY_INCREMENT
                  /\ STORE'.stat.namespace_count = STORE.stat.namespace_count
            /\ call'.result.err.kind = "NotFound" => k > 0 /\ ReleasesUnknown(atoms[k])
            /\ (atoms # <<>> /\ NsOf(NamedIris(atom_into(atoms[1]))[1]) \in AllNs \ KnownNs)
                  => call'.result = Failed(Err("NotFound", <<>>))]_vars

\* C11 witness: a delete_all fails on the unknown namespace of a datatype after
\* it has released the known namespace of the predicate, which alone is cached
C11_Witness ==
    /\ call.op = "delete_all"
    /\ call.result.err.kind = "NotFound"
    /\ DOMAIN ns_cache = {NsOf(IriBY)}
    /\ NsOf(IriAE) \notin DOMAIN namespaces
    /\ call.batch[Events(call.log, "delete_triple")] = AtomTyped

\* the description is a literal with both a language tag and a datatype
BothQualifiers(value) == value.kind = "Literal" /\ value.lang.some /\ value.datatype.some

\* C12: Value::try_from returns an error for every literal description that
\* carries both a language tag and a datatype, whatever its value, its tag, its
\* datatype (full or prefixed, with a known or an unknown prefix) and the
\* prefix map: the error of an unsupported object value.
C12_LangAndDatatypeRejected ==
    (mapped.object # NotConverted /\ BothQualifiers(msg_value)) =>
        /\ ~mapped.object.ok
        /\ mapped.object = Unsupported("object", msg_value, "URI, BlankNode or Literal")

\* C12 witness: a literal with a language tag and a prefixed datatype whose
\* prefix no map holds has been converted with the empty prefix map
C12_Witness ==
    /\ mapped.object # NotConverted
    /\ BothQualifiers(msg_value)
    /\ msg_value.datatype.value = Prefixed(CurieNX)
    /\ prefixes = EmptyMap

\* the prefix of every CURIE of the description is in the prefix map
PrefixesKnown(value, prefix_map) ==
    /\ (value.kind = "URI" /\ value.value.kind = "Prefixed") =>
          SubSeq(value.value.value, 1, rfind(value.value.value, ":") - 1) \in DOMAIN prefix_map
    /\ (value.kind = "Literal" /\ value.datatype.some
            /\ value.datatype.value.kind = "Prefixed") =>
          SubSeq(value.datatype.value.value, 1, rfind(value.datatype.value.value, ":") - 1)
              \in DOMAIN prefix_map

\* the conversion to a subject and to a predicate, as C13 states them: a subject
\* is returned exactly for a URI and a blank node, a predicate exactly for a
\* URI, and every other description gets the error that names the expected set
SubjectAndPredicateValidity ==
    /\ mapped.subject # NotConverted =>
          IF msg_value.kind \in {"URI", "BlankNode"}
          THEN mapped.subject.ok
                  /\ mapped.subject.value.kind
                         = (IF msg_value.kind = "URI" THEN "NamedNode" ELSE "BlankNode")
          ELSE mapped.subject = Unsupported("subject", msg_value, "URI or BlankNode")
    /\ mapped.property # NotConverted =>
          IF msg_value.kind = "URI"
          THEN mapped.property.ok /\ mapped.property.value.kind = "NamedNode"
          ELSE mapped.property = Unsupported("predicate", msg_value, "URI")

\* C13 as claimed: when the prefixes of its CURIEs are known, a description is
\* converted to a subject exactly if it is a URI or a blank node, to a
\* predicate exactly if it is a URI, and to an object if it is a URI, a blank
\* node or a literal; the other conversions return the error naming the
\* expected set.
C13_PositionValidity ==
    PrefixesKnown(msg_value, prefixes) =>
        /\ SubjectAndPredicateValidity
        /\ (mapped.object # NotConverted
                /\ msg_value.kind \in {"URI", "BlankNode", "Literal"}) => mapped.object.ok

\* C13 as amended: as claimed for a subject and a predicate; a description is
\* converted to an object exactly if it is a URI, a blank node or a literal
\* that does not carry both a language tag and a datatype, and a literal that
\* carries both gets the error naming the set an object is expected from.
C13_PositionValidityOneQualifier ==
    PrefixesKnown(msg_value, prefixes) =>
        /\ SubjectAndPredicateValidity
        /\ mapped.object # NotConverted =>
              IF BothQualifiers(msg_value)
              THEN mapped.object
                      = Unsupported("object", msg_value, "URI, BlankNode or Literal")
              ELSE /\ mapped.object.ok
                   /\ mapped.object.value.kind
                         = (CASE msg_value.kind = "URI" -> "NamedNode"
                              [] msg_value.kind = "BlankNode" -> "BlankNode"
                              [] ~msg_value.lang.some /\ ~msg_value.datatype.some
                                    -> "LiteralSimple"
                              [] msg_value.lang.some -> "LiteralLang"
                              [] OTHER -> "LiteralDatatype")

\* C13 witness: a blank node has been converted for the three positions; it is
\* a subject and an object, and is refused as a predicate
C13_Witness ==
    /\ msg_value.kind = "BlankNode"
    /\ mapped.subject.ok
    /\ mapped.object.ok
    /\ mapped.property = Unsupported("predicate", msg_value, "URI")

\* the subject or the object of the triple is a quoted triple
IsQuoted(triple) == triple.subject.kind = "Triple" \/ triple.object.kind = "Triple"

AbortKinds ==
    QuotaKinds \cup {"Parse", "NotFound", "Couldn't extract IRI namespace",
                     "RDF star syntax unsupported"}

\* what the batch of the step (a call of the engine) leaves when a new engine
\* over the same storage runs it
OnNewEngine ==
    IF call'.op = "store_all" THEN store_all(new(Machine), call'.batch)
    ELSE delete_all(new(Machine), call'.batch)

\* C15: An aborted batch leaves nothing behind in the engine.  A store_all or
\* delete_all that returns a quota, parse or namespace error leaves the running
\* statistics, the allocator offset and the namespace cache of the engine as
\* they were when the batch started; and a batch that commits on an engine
\* whose last batch was aborted persists the statistics, the namespace table
\* and the allocator offset that it persists on a new engine, with nothing of
\* the aborted batch in them.
C15_AbortLeavesNothingBehind ==
    [][CallStep =>
        /\ call'.result.err.kind \in AbortKinds =>
              /\ store' = store
              /\ ns_key_inc_offset' = ns_key_inc_offset
              /\ ns_cache' = ns_cache
        /\ (~alive /\ call'.result.ok) =>
              /\ OnNewEngine.err = NoErr
              /\ STORE' = OnNewEngine.STORE
              /\ namespaces' = OnNewEngine.namespaces
              /\ NAMESPACE_KEY_INCREMENT' = OnNewEngine.NAMESPACE_KEY_INCREMENT]_vars

\* the namespaces the triples of a batch refer to
Touched(batch) == {ns \in AllNs : RefsOf(batch, ns) > 0}

\* the counter of the record of a namespace, 0 if it has no record
CounterOf(table, ns) == IF ns \in DOMAIN table THEN table[ns].counter ELSE 0

\* the events of the commit step of a successful call: those after the two
\* events of each triple of the batch
CommitLog(c) == SubSeq(c.log, 2 * Len(c.batch) + 1, Len(c.log))

\* C16: The commit step of a successful call writes to the backend in this
\* order: the allocator offset; then one write for each namespace of the cache
\* (the namespaces the batch refers to), a save of a record with counter > 0 or
\* a remove of a namespace whose counter has come to 0; then the statistics
\* record.  The namespace count of the statistics record written is the count
\* before the call, plus the namespaces allocated, minus one for each remove.
C16_FinishWriteOrder ==
    [][(CallStep /\ call'.result.ok) =>
        LET log == CommitLog(call')
            batch == TriplesOf(call')
            cached == Touched(batch)
            sign == IF call'.op = "store_all" THEN 1 ELSE -1
            allocated == IF call'.op = "store_all" THEN cached \ DOMAIN namespaces ELSE {}
        IN  /\ Len(log) = Cardinality(cached) + 2
            /\ log[1] = <<"NAMESPACE_KEY_INCREMENT.save">>
            /\ log[Len(log)] = <<"STORE.save">>
            /\ {log[j][2] : j \in 2..(Len(log) - 1)} = cached
            /\ \A j \in 2..(Len(log) - 1) :
                  LET ns == log[j][2]
                      counter == (CounterOf(namespaces, ns) + sign * RefsOf(batch, ns))
                                     % CounterModulus
                  IN  /\ log[j][1] = (IF counter > 0 THEN "namespaces.save"
                                      ELSE "namespaces.remove")
                      /\ CounterOf(namespaces', ns) = counter
                      /\ counter > 0 <=> ns \in DOMAIN namespaces'
            /\ NAMESPACE_KEY_INCREMENT' = ns_key_inc_offset'
            /\ STORE' = store'
            /\ STORE'.stat.namespace_count
                  = STORE.stat.namespace_count + Cardinality(allocated)
                        - Events(log, "namespaces.remove")]_vars

\* C16 witness: the commit of a delete_all has written the allocator offset,
\* removed one namespace and saved another, and then written a statistics
\* record that counts one namespace
C16_Witness ==
    /\ call.op = "delete_all"
    /\ call.result.ok
    /\ Len(CommitLog(call)) = 4
    /\ Events(CommitLog(call), "namespaces.remove") = 1
    /\ Events(CommitLog(call), "namespaces.save") = 1
    /\ STORE.stat.namespace_count = 1

\* the keys of the records of a namespace table
KeysOf(table) == {table[ns].key : ns \in DOMAIN table}

\* No two namespaces, cached or persisted, hold the same key; a namespace that
\* is cached and persisted holds one key; every key is below the allocator
\* offset, of the engine for a cached namespace and of the backend for a
\* persisted one.
UniqueKeys ==
    /\ \A a \in DOMAIN namespaces, b \in DOMAIN namespaces :
          a # b => namespaces[a].key # namespaces[b].key
    /\ \A a \in DOMAIN ns_cache, b \in DOMAIN ns_cache :
          a # b => ns_cache[a].key # ns_cache[b].key
    /\ \A a \in DOMAIN ns_cache, b \in DOMAIN namespaces :
          (ns_cache[a].key = namespaces[b].key) <=> (a = b)
    /\ \A k \in KeysOf(namespaces) : k < NAMESPACE_KEY_INCREMENT
    /\ \A k \in KeysOf(ns_cache) : k < ns_key_inc_offset

CountsReferences ==
    LET document == call'.batch
        allocated == Touched(document) \ DOMAIN namespaces
    IN  /\ \A ns \in Touched(document) :
              /\ ns \in DOMAIN namespaces'
              /\ namespaces'[ns].value = ns
              /\ namespaces'[ns].counter = CounterOf(namespaces, ns) + RefsOf(document, ns)
              /\ ns \in DOMAIN namespaces => namespaces'[ns].key = namespaces[ns].key
              /\ Cardinality({j \in 1..Len(call'.log) :
                                 call'.log[j] = <<"namespaces.save", ns>>}) = 1
        /\ \A ns \in AllNs \ Touched(document) :
              /\ ns \in DOMAIN namespaces' <=> ns \in DOMAIN namespaces
              /\ ns \in DOMAIN namespaces => namespaces'[ns] = namespaces[ns]
        /\ DOMAIN namespaces' \subseteq AllNs
        /\ STORE'.stat.namespace_count
              = STORE.stat.namespace_count + Cardinality(allocated)

\* C18: After a successful store_all, the record of every namespace the
\* document refers to holds the counter it held before the call (0 if it had
\* no record) plus the number of references of the document to it, each
\* subject IRI, predicate IRI, object IRI and datatype IRI of a typed literal
\* being one reference (CountsReferences).
C18_CounterGrowsByReferences ==
    [][(StoreAllStep /\ call'.result.ok) => CountsReferences]_vars

\* the counters of the namespaces a document refers to stay in the range of a
\* u128 when its references are added
SumsInRange(document) ==
    \A ns \in Touched(document) :
        CounterOf(namespaces, ns) + RefsOf(document, ns) < CounterModulus

\* What holds of C18: a successful store_all counts the references of its
\* document, provided no counter leaves the range of a u128.
CountsReferencesInRange ==
    [][(StoreAllStep /\ call'.result.ok /\ SumsInRange(call'.batch))
          => CountsReferences]_vars

\* a store_all has committed a document that refers at least twice to a
\* namespace that had a record, once by the datatype of a typed literal, and
\* that allocates another namespace
CountsReferencesReached ==
    /\ call.op = "store_all"
    /\ call.result.ok
    /\ before.valid
    /\ before.age = 0
    /\ \E ns \in AllNs :
          /\ CounterOf(before.namespaces, ns) > 0
          /\ RefsOf(call.batch, ns) >= 2
          /\ namespaces[ns].counter = CounterOf(before.namespaces, ns) + RefsOf(call.batch, ns)
    /\ \E ns \in AllNs : ns \in DOMAIN namespaces \ DOMAIN before.namespaces
    /\ \E i \in 1..Len(call.batch) :
          /\ call.batch[i].object.kind = "Literal"
          /\ call.batch[i].object.literal.kind = "Typed"

\* the references a stored triple holds to the namespace of a key: one per
\* named subject, predicate, named object and datatype of a typed literal
HeldRefs(record, key) ==
    (IF record.subject.kind = "Named" /\ record.subject.node.namespace = key THEN 1 ELSE 0)
    + (IF record.predicate.namespace = key THEN 1 ELSE 0)
    + (IF record.object.kind = "Named" /\ record.object.node.namespace = key THEN 1 ELSE 0)
    + (IF /\ record.object.kind = "Literal"
          /\ record.object.literal.kind = "Typed"
          /\ record.object.literal.datatype.namespace = key
       THEN 1 ELSE 0)

RECURSIVE HeldRefsOver(_, _, _)
HeldRefsOver(table, keys, key) ==
    IF keys = {} THEN 0
    ELSE LET k == CHOOSE x \in keys : TRUE
         IN  HeldRefs(table[k], key) + HeldRefsOver(table, keys \ {k}, key)

\* the number of references to the namespace of a key from the triple table
TableRefs(table, key) == HeldRefsOver(table, DOMAIN table, key)

\* C19: The reference count is exact: after any sequence of committed
\* store_all and delete_all batches, the counter of every persisted namespace
\* equals the number of references to that namespace from the triples held in
\* the triple table, and a namespace with no such reference has no record.
C19_ReferenceCountExact ==
    \A ns \in DOMAIN namespaces :
        /\ namespaces[ns].counter = TableRefs(triples, namespaces[ns].key)
        /\ TableRefs(triples, namespaces[ns].key) > 0

\* the stored form of an IRI whose namespace has a record in the table
StoredNode(i, table) == Node(table[NsOf(i)].key, explode_iri(i).local)

\* the key under which the triple table holds a triple whose namespaces all
\* have a record in the table
StoredKey(triple, table) ==
    triple_key(
        [subject |-> IF triple.subject.kind = "NamedNode"
                     THEN [kind |-> "Named", node |-> StoredNode(triple.subject.iri, table)]
                     ELSE [kind |-> "Blank", id |-> triple.subject.id],
         predicate |-> StoredNode(triple.predicate.iri, table),
         object |->
            CASE triple.object.kind = "NamedNode" ->
                    [kind |-> "Named", node |-> StoredNode(triple.object.iri, table)]
              [] triple.object.kind = "BlankNode" ->
                    [kind |-> "Blank", id |-> triple.object.id]
              [] triple.object.kind = "Literal" ->
                    [kind |-> "Literal",
                     literal |->
                        CASE triple.object.literal.kind = "Simple" ->
                                [kind |-> "Simple", value |-> triple.object.literal.value]
                          [] triple.object.literal.kind = "LanguageTaggedString" ->
                                [kind |-> "I18NString",
                                 value |-> triple.object.literal.value,
                                 language |-> triple.object.literal.language]
                          [] triple.object.literal.kind = "Typed" ->
                                [kind |-> "Typed",
                                 value |-> triple.object.literal.value,
                                 datatype |-> StoredNode(triple.object.literal.datatype.iri,
                                                         table)]]])

\* the atoms are well formed, all their namespaces have a record, and one of
\* them is not in the triple table
DeletesNonStored(atoms) ==
    /\ \A i \in 1..Len(atoms) : atoms[i] \in GoodAtoms
    /\ Touched(AsTriples(atoms)) \subseteq DOMAIN namespaces
    /\ \E i \in 1..Len(atoms) :
          StoredKey(atom_into(atoms[i]), namespaces) \notin DOMAIN triples

\* the call has succeeded; it has removed from the triple table the atoms that
\* were in it and nothing else; the committed triple count, byte size and
\* namespace counters are those before the call less one, the size and the
\* references of every atom, a namespace whose counter reaches 0 losing its
\* record
DecrementedAndCommitted(atoms) ==
    /\ call'.result.ok
    /\ DOMAIN triples'
          = DOMAIN triples \ {StoredKey(atom_into(atoms[i]), namespaces) : i \in 1..Len(atoms)}
    /\ \A key \in DOMAIN triples' : triples'[key] = triples[key]
    /\ STORE'.stat.triple_count = STORE.stat.triple_count - Len(atoms)
    /\ STORE'.stat.byte_size = STORE.stat.byte_size - SizeOf(AsTriples(atoms))
    /\ \A ns \in AllNs :
          CounterOf(namespaces', ns) = CounterOf(namespaces, ns) - RefsOf(AsTriples(atoms), ns)

\* C20: Deleting a triple that is not in the triple table is not detected:
\* when all of its namespaces are known, delete_all succeeds, the backend
\* remove has no effect on the triple table, and tripleCount, byteSize and the
\* namespace counters are nevertheless decremented and committed.
C20_DeleteNonStoredNotDetected ==
    [][(DeleteAllStep /\ DeletesNonStored(call'.batch))
          => DecrementedAndCommitted(call'.batch)]_vars

\* the triple count, the byte size and the namespace counters are large enough
\* for the atoms to be subtracted
Suffices(atoms) ==
    /\ Len(atoms) <= STORE.stat.triple_count
    /\ SizeOf(AsTriples(atoms)) <= STORE.stat.byte_size
    /\ \A ns \in AllNs : RefsOf(AsTriples(atoms), ns) <= CounterOf(namespaces, ns)

\* What holds of C20: the deletion of a triple that is not in the triple table
\* is not detected, provided no subtraction underflows.
DeleteNonStoredNotDetectedInRange ==
    [][(DeleteAllStep /\ DeletesNonStored(call'.batch) /\ Suffices(call'.batch))
          => DecrementedAndCommitted(call'.batch)]_vars

\* a delete_all of a triple that is not in the triple table has succeeded and
\* has removed the record of a namespace that a stored triple refers to
DeleteNonStoredReached ==
    /\ call.op = "delete_all"
    /\ call.result.ok
    /\ calls = 1
    /\ call.batch = <<AtomNamed>>
    /\ namespaces = EmptyMap
    /\ Cardinality(DOMAIN triples) = 2
    /\ STORE.stat.triple_count = 1

\* the position in a log of the first event of the commit step, one past the
\* end of the log if the commit step has not started
CommitStart(log) ==
    LET at == {j \in 1..Len(log) : log[j][1] = "NAMESPACE_KEY_INCREMENT.save"}
    IN  IF at = {} THEN Len(log) + 1 ELSE CHOOSE j \in at : \A x \in at : j <= x

\* the events of a log that write or remove the record of a namespace
NsWrites(log, ns) ==
    {j \in 1..Len(log) : log[j] \in {<<"namespaces.save", ns>>, <<"namespaces.remove", ns>>}}

\* the namespaces the batch of a call refers to
TouchedBy(c) ==
    IF c.op = "store_all" THEN Touched(c.batch) ELSE Touched(AsTriples(c.batch))

\* C21: The namespace cache is a write buffer flushed exactly once.  In every
\* call, no namespace record and no statistics record is written to or removed
\* from the backend before the commit step starts: the events before it write
\* triples only, and a call that does not reach it leaves the namespace table
\* and the statistics record as they were.  In the commit step of a successful
\* call every namespace the batch refers to receives exactly one backend write
\* (a save or a remove), however many triples refer to it, no other namespace
\* receives one, and the statistics record is saved once.
C21_CacheFlushedOnce ==
    [][CallStep =>
        LET log == call'.log
            start == CommitStart(log)
        IN  /\ \A j \in 1..(start - 1) :
                  log[j][1] \in {"store_triple", "delete_triple", "triples.save", "triples.remove"}
            /\ ~Committing(call') => namespaces' = namespaces /\ STORE' = STORE
            /\ \A ns \in AllNs : Cardinality(NsWrites(log, ns)) <= 1
            /\ Events(log, "STORE.save") <= 1
            /\ call'.result.ok =>
                  /\ Committing(call')
                  /\ \A ns \in TouchedBy(call') : Cardinality(NsWrites(log, ns)) = 1
                  /\ \A ns \in AllNs \ TouchedBy(call') : NsWrites(log, ns) = {}
                  /\ Events(log, "STORE.save") = 1
                  /\ ns_cache' = EmptyMap]_vars

\* C21 witness: a store_all of two triples that both refer to a namespace, three
\* times in all, has committed with a single write of its record
C21_Witness ==
    /\ call.op = "store_all"
    /\ call.result.ok
    /\ Len(call.batch) = 2
    /\ \E ns \in AllNs :
          /\ RefsOfTriple(call.batch[1], ns) > 0
          /\ RefsOfTriple(call.batch[2], ns) > 0
          /\ RefsOf(call.batch, ns) = 3
          /\ Cardinality(NsWrites(call.log, ns)) = 1

\* the engine is as finish leaves it: the cache is empty and the batch-start
\* counters are the current triple count and byte size, in memory and persisted
Rebased ==
    /\ ns_cache = EmptyMap
    /\ initial_triple_count = store.stat.triple_count
    /\ initial_triple_count = STORE.stat.triple_count
    /\ initial_byte_size = store.stat.byte_size
    /\ initial_byte_size = STORE.stat.byte_size

\* every item of the document is a well-formed triple, and none of them
\* violates a bound when the document is stored in the store as it is
Admissible(document) ==
    \A i \in 1..Len(document) :
        /\ document[i] \in GoodItems
        /\ FirstViolated(STORE.stat, STORE.limits, document, i) = "none"

\* C22: After finish returns, the namespace cache is empty and the batch-start
\* counters equal the current tripleCount and byteSize, so the per-batch limits
\* are measured afresh for each batch.  A store_all on an engine that has
\* already committed a batch succeeds for every document of well-formed
\* triples that stays within the per-batch limits counted from the start of
\* this call and within the total limits, and adds its triples and bytes; it
\* is refused for a per-batch limit only by a triple that takes the count or
\* the size of this document alone beyond the limit.
C22_LimitsMeasuredAfresh ==
    [][/\ (CallStep /\ call'.result.ok) => Rebased'
       /\ (StoreAllStep /\ call.nth > 0) =>
             LET document == call'.batch
                 k == Events(call'.log, "store_triple")
             IN  /\ Rebased
                 /\ Admissible(document) =>
                       /\ call'.result.ok
                       /\ STORE'.stat.triple_count = STORE.stat.triple_count + Len(document)
                       /\ STORE'.stat.byte_size = STORE.stat.byte_size + SizeOf(document)
                 /\ call'.result.err.kind = "InsertDataTripleCount" =>
                       k > STORE.limits.max_insert_data_triple_count
                 /\ call'.result.err.kind = "InsertDataByteSize" =>
                       SizeOf(SubSeq(document, 1, k)) > STORE.limits.max_insert_data_byte_size]_vars

\* C22 witness: the engine made over an empty store has committed a store_all
\* of one triple and then a store_all of max_insert_data_triple_count triples;
\* the triples and the bytes of the two batches together exceed the per-batch
\* limits
C22_Witness ==
    /\ calls = 2
    /\ call.nth = 2
    /\ call.op = "store_all"
    /\ call.result.ok
    /\ Len(call.batch) = STORE.limits.max_insert_data_triple_count
    /\ before.valid
    /\ before.age = 0
    /\ before.stat.triple_count = 1
    /\ NAMESPACE_KEY_INCREMENT = 2
    /\ STORE.stat.triple_count = Len(call.batch) + 1
    /\ STORE.stat.byte_size = before.stat.byte_size + SizeOf(call.batch)
    /\ STORE.stat.byte_size > STORE.limits.max_insert_data_byte_size

\* the items of a sequence
Range(seq) == {seq[i] : i \in 1..Len(seq)}

\* the atom is a triple of the last committed store_all, nothing has been
\* committed since, and the records of its namespaces are persisted
StoredByLastBatch(atom) ==
    /\ before.valid
    /\ before.age = 0
    /\ atom \in GoodAtoms
    /\ atom_into(atom) \in Range(before.document)
    /\ Touched(<<atom_into(atom)>>) \subseteq DOMAIN namespaces

\* C23: A triple is removed under the same key it was stored under.  Every
\* record of the triple table is held under the key derived from it (hash of
\* the object, predicate namespace key and local name, subject key).  A triple
\* of the last committed store_all whose namespace records are persisted is in
\* the triple table under the key derived from it with the keys of those
\* records; a delete_all of it removes that key, and when the delete_all
\* succeeds no record of the triple is left; the delete_all of that triple
\* alone succeeds.
C23_RemovedUnderStoredKey ==
    /\ \A key \in DOMAIN triples : triple_key(triples[key]) = key
    /\ [][/\ \A key \in DOMAIN triples' : triple_key(triples'[key]) = key
          /\ DeleteAllStep =>
                LET atoms == call'.batch
                IN  \A i \in 1..Len(atoms) :
                        StoredByLastBatch(atoms[i]) =>
                            LET key == StoredKey(atom_into(atoms[i]), namespaces)
                            IN  /\ key \in DOMAIN triples
                                /\ call'.result.ok =>
                                      /\ call'.log[2 * i] = <<"triples.remove", key>>
                                      /\ key \notin DOMAIN triples'
                                /\ atoms = <<atoms[i]>> => call'.result.ok]_vars

\* C23 witness: a store_all has stored the triple with named subject and
\* object in a store that held other triples, the second of its namespaces
\* under key 1, and a delete_all of that triple has removed its record
C23_Witness ==
    /\ call.op = "delete_all"
    /\ call.result.ok
    /\ call.batch = <<AtomNamed>>
    /\ before.valid
    /\ before.age = 1
    /\ atom_into(AtomNamed) \in Range(before.document)
    /\ before.stat.triple_count > 0
    /\ call.log[2][1] = "triples.remove"
    /\ call.log[2][2].predicate.namespace # call.log[2][2].object.blake3.node.namespace
    /\ call.log[2][2] \notin DOMAIN triples
    /\ triples # EmptyMap

\* the persisted namespace count is the number of records of the namespace table
NamespaceCountExact == STORE.stat.namespace_count = Cardinality(DOMAIN namespaces)

\* C24: After every commit, the persisted namespaceCount statistic equals the
\* number of records in the persisted namespace table, which holds in the
\* initial state.  A committed call changes it by the number of namespaces it
\* has allocated (the growth of the allocator offset) less the number of
\* records its commit step has removed, and the records removed are those
\* whose counter is 0 in the cache.
C24_NamespaceCountMatchesTable ==
    /\ NamespaceCountExact
    /\ [][/\ NamespaceCountExact'
          /\ (CallStep /\ call'.result.ok) =>
                /\ STORE'.stat.namespace_count
                      = STORE.stat.namespace_count
                        + (NAMESPACE_KEY_INCREMENT' - NAMESPACE_KEY_INCREMENT)
                        - Events(call'.log, "namespaces.remove")
                /\ \A ns \in AllNs :
                      <<"namespaces.remove", ns>> \in Range(call'.log)
                          <=> (ns \in DOMAIN namespaces /\ ns \notin DOMAIN namespaces')
                /\ Cardinality(DOMAIN namespaces' \ DOMAIN namespaces)
                      = NAMESPACE_KEY_INCREMENT' - NAMESPACE_KEY_INCREMENT]_vars

\* C24 witness: a store_all has allocated a namespace in a store that held one,
\* and a delete_all has then removed one of the two records
C24_Witness ==
    /\ call.op = "delete_all"
    /\ call.result.ok
    /\ before.valid
    /\ before.age = 1
    /\ before.stat.namespace_count = 1
    /\ Events(call.log, "namespaces.remove") = 1
    /\ Events(call.log, "namespaces.save") = 1
    /\ NAMESPACE_KEY_INCREMENT = 2
    /\ STORE.stat.namespace_count = 1
    /\ Cardinality(DOMAIN namespaces) = 1

\* the persisted statistics are within the total limits
WithinTotals ==
    /\ STORE.stat.triple_count <= STORE.limits.max_triple_count
    /\ STORE.stat.byte_size <= STORE.limits.max_byte_size

\* C25: With limits unchanged and an initial state within them, every
\* statistics record persisted by a commit satisfies tripleCount <=
\* max_triple_count and byteSize <= max_byte_size; every triple stored by a
\* successful store_all has a byte size of at most max_triple_byte_size; a
\* successful store_all adds at most max_insert_data_triple_count triples and
\* at most max_insert_data_byte_size bytes.
C25_CommittedWithinLimits ==
    /\ WithinTotals
    /\ [][/\ STORE'.limits = STORE.limits
          /\ WithinTotals'
          /\ (StoreAllStep /\ call'.result.ok) =>
                LET document == call'.batch
                    limits == STORE.limits
                IN  /\ \A i \in 1..Len(document) :
                          /\ triple_size(document[i]) <= limits.max_triple_byte_size
                          /\ call'.log[2 * i][1] = "triples.save"
                          /\ call'.log[2 * i][2] \in DOMAIN triples'
                    /\ STORE'.stat.triple_count = STORE.stat.triple_count + Len(document)
                    /\ STORE'.stat.byte_size = STORE.stat.byte_size + SizeOf(document)
                    /\ Len(document) <= limits.max_insert_data_triple_count
                    /\ SizeOf(document) <= limits.max_insert_data_byte_size]_vars

\* C25 witness: a store_all of max_insert_data_triple_count triples, one of
\* them of max_triple_byte_size bytes, has taken the store to max_triple_count
\* triples
C25_Witness ==
    /\ call.op = "store_all"
    /\ call.result.ok
    /\ Len(call.batch) = STORE.limits.max_insert_data_triple_count
    /\ \E i \in 1..Len(call.batch) :
          triple_size(call.batch[i]) = STORE.limits.max_triple_byte_size
    /\ STORE.stat.triple_count = STORE.limits.max_triple_count
    /\ before.valid
    /\ before.age = 0
    /\ STORE.stat.triple_count = before.stat.triple_count + Len(call.batch)

\* the atoms would take the triple count, the byte size or the counter of a
\* namespace below zero
BelowZero(atoms) ==
    \/ Len(atoms) > STORE.stat.triple_count
    \/ SizeOf(AsTriples(atoms)) > STORE.stat.byte_size
    \/ \E ns \in AllNs : RefsOf(AsTriples(atoms), ns) > CounterOf(namespaces, ns)

\* C26: Statistic and reference counters never wrap below zero into a
\* committed value: a delete_all that would take tripleCount, byteSize or a
\* namespace counter below zero leaves no statistic and no counter of the
\* namespace table above the value it had before the call.
C26_NoWrappedValueCommitted ==
    [][(DeleteAllStep /\ BelowZero(call'.batch)) =>
          /\ STORE'.stat.triple_count <= STORE.stat.triple_count
          /\ STORE'.stat.byte_size <= STORE.stat.byte_size
          /\ \A ns \in AllNs :
                CounterOf(namespaces', ns) <= CounterOf(namespaces, ns)]_vars

\* the i-th triple of the batch of a successful call has been processed as the
\* i-th: store_triple has saved it, or delete_triple has removed it, under the
\* key derived from it with the keys of the persisted namespace records
ProcessedAt(c, i, table_before, table_after) ==
    IF c.op = "store_all"
    THEN /\ c.log[2 * i - 1] = <<"store_triple">>
         /\ c.log[2 * i][1] = "triples.save"
         /\ Touched(<<c.batch[i]>>) \subseteq DOMAIN table_after =>
                c.log[2 * i][2] = StoredKey(c.batch[i], table_after)
    ELSE /\ c.log[2 * i - 1] = <<"delete_triple">>
         /\ c.log[2 * i][1] = "triples.remove"
         /\ c.log[2 * i][2] = StoredKey(atom_into(c.batch[i]), table_before)

\* C27: A successful store_all or delete_all call processes every triple of
\* its batch, in input order, before the commit step, and performs the commit
\* step exactly once, as its last action: the events of the call are those of
\* the triples, one after the other in the order of the batch, followed by the
\* events of one commit step, which starts with the save of the allocator
\* offset, writes namespace records only, and ends with the save of the
\* statistics record.
C27_BatchThenCommitOnce ==
    [][(CallStep /\ call'.result.ok) =>
          LET log == call'.log
              n == Len(call'.batch)
          IN  /\ CommitStart(log) = 2 * n + 1
              /\ \A i \in 1..n : ProcessedAt(call', i, namespaces, namespaces')
              /\ Events(log, "NAMESPACE_KEY_INCREMENT.save") = 1
              /\ Events(log, "STORE.save") = 1
              /\ log[Len(log)] = <<"STORE.save">>
              /\ \A j \in (2 * n + 2)..(Len(log) - 1) :
                    log[j][1] \in {"namespaces.save", "namespaces.remove"}]_vars

\* C27 witness: a store_all has committed a document of two different
\* triples, saved under different keys, with a write of a namespace record
\* between the save of the allocator offset and that of the statistics record
C27_Witness ==
    /\ call.op = "store_all"
    /\ call.result.ok
    /\ Len(call.batch) = 2
    /\ call.batch[1] # call.batch[2]
    /\ call.log[2][2] # call.log[4][2]
    /\ call.log[5] = <<"NAMESPACE_KEY_INCREMENT.save">>
    /\ Len(call.log) >= 7
    /\ call.log[Len(call.log)] = <<"STORE.save">>

====
